---- MODULE Spec2Model ----
(***************************************************************************)
(* A model of the knot-exporter collector (pkg/collector/collectors.go and *)
(* pkg/utils): the descriptor registries with their reader/writer locks,   *)
(* the four response-interpreting phases, and the Collect orchestrator.    *)
(*                                                                         *)
(* Go strings are modelled as sequences of one-character strings, so that  *)
(* parsing and splitting are computed character by character.              *)
(***************************************************************************)
EXTENDS Integers, Sequences, FiniteSets, TLC

(***************************************************************************)
(* Characters and strings                                                  *)
(***************************************************************************)

Digits == {"0", "1", "2", "3", "4", "5", "6", "7", "8", "9"}

\* unicode.IsSpace restricted to the white space the model's strings use.
WhiteSpace == {" ", "\t", "\n"}

DigitVal(c) ==
  CASE c = "0" -> 0 [] c = "1" -> 1 [] c = "2" -> 2 [] c = "3" -> 3
    [] c = "4" -> 4 [] c = "5" -> 5 [] c = "6" -> 6 [] c = "7" -> 7
    [] c = "8" -> 8 [] c = "9" -> 9

AllDigits(s) == \A i \in 1..Len(s) : s[i] \in Digits

\* The value of a string of decimal digits (0 for the empty string).
RECURSIVE DigitsVal(_)
DigitsVal(s) ==
  IF s = <<>> THEN 0
  ELSE 10 * DigitsVal(SubSeq(s, 1, Len(s) - 1)) + DigitVal(s[Len(s)])

RECURSIVE Pow10(_)
Pow10(n) == IF n <= 0 THEN 1 ELSE 10 * Pow10(n - 1)

\* strings.HasSuffix(s, suffix)
HasSuffix(s, suffix) ==
  /\ Len(s) >= Len(suffix)
  /\ SubSeq(s, Len(s) - Len(suffix) + 1, Len(s)) = suffix

\* strings.ToLower, on ASCII (the model's strings are ASCII).
LowerChar(c) ==
  CASE c = "A" -> "a" [] c = "B" -> "b" [] c = "C" -> "c" [] c = "D" -> "d"
    [] c = "E" -> "e" [] c = "F" -> "f" [] c = "G" -> "g" [] c = "H" -> "h"
    [] c = "I" -> "i" [] c = "J" -> "j" [] c = "K" -> "k" [] c = "L" -> "l"
    [] c = "M" -> "m" [] c = "N" -> "n" [] c = "O" -> "o" [] c = "P" -> "p"
    [] c = "Q" -> "q" [] c = "R" -> "r" [] c = "S" -> "s" [] c = "T" -> "t"
    [] c = "U" -> "u" [] c = "V" -> "v" [] c = "W" -> "w" [] c = "X" -> "x"
    [] c = "Y" -> "y" [] c = "Z" -> "z"
    [] OTHER -> c

ToLower(s) == [i \in 1..Len(s) |-> LowerChar(s[i])]

\* strings.Fields: the maximal runs of non-space characters, in order.
RECURSIVE FieldsFrom(_, _, _)
FieldsFrom(s, i, cur) ==
  IF i > Len(s) THEN (IF cur = <<>> THEN <<>> ELSE <<cur>>)
  ELSE IF s[i] \in WhiteSpace
       THEN (IF cur = <<>> THEN <<>> ELSE <<cur>>) \o FieldsFrom(s, i + 1, <<>>)
       ELSE FieldsFrom(s, i + 1, Append(cur, s[i]))

Fields(s) == FieldsFrom(s, 1, <<>>)

(***************************************************************************)
(* Numbers.  A float64 is modelled exactly as num * 10^(-scale), with num  *)
(* carrying no factor of ten, or as one of the specials; so two model      *)
(* floats are equal iff the numbers are.  The values the model handles     *)
(* have few enough digits that float64 rounding plays no part.             *)
(***************************************************************************)

RECURSIVE NormFloat(_, _)
NormFloat(num, scale) ==
  IF num = 0 THEN [num |-> 0, scale |-> 0]
  ELSE IF num % 10 = 0 THEN NormFloat(num \div 10, scale - 1)
  ELSE [num |-> num, scale |-> scale]

\* float64(n) of an integer n
Float(n) == NormFloat(n, 0)

FloatInf(neg) == [num |-> IF neg THEN "-Inf" ELSE "+Inf", scale |-> 0]

FloatNaN == [num |-> "NaN", scale |-> 0]

\* x * k for a float x and an integer k
FloatMulInt(x, k) == NormFloat(x.num * k, x.scale)

\* x + y for two floats with scale <= 0 on both sides or any finite scales
FloatAdd(x, y) ==
  LET s == IF x.scale >= y.scale THEN x.scale ELSE y.scale
  IN  NormFloat(x.num * Pow10(s - x.scale) + y.num * Pow10(s - y.scale), s)

\* The largest decimal exponent of a finite float64 (1.797e308).
MaxFloatExp10 == 308

(***************************************************************************)
(* strconv.ParseFloat(s, 64), for the decimal syntax                        *)
(*   [+-] (digits [. [digits]] | . digits) [(e|E) [+-] digits]             *)
(* and the specials inf, infinity, nan (any case; nan takes no sign).      *)
(* Hexadecimal floats and digit-separating underscores are not modelled:   *)
(* no string of the model uses them.  A value beyond the float64 range is  *)
(* ErrRange (ok = FALSE), decided on the decimal exponent.                 *)
(***************************************************************************)

NoFloat == [ok |-> FALSE, val |-> Float(0)]

\* The index of the first character of s at or after i that is not a digit.
RECURSIVE SkipDigits(_, _)
SkipDigits(s, i) ==
  IF i <= Len(s) /\ s[i] \in Digits THEN SkipDigits(s, i + 1) ELSE i

ParseDecimal(body, neg) ==
  LET iEnd    == SkipDigits(body, 1)
      intPart == SubSeq(body, 1, iEnd - 1)
      hasDot  == iEnd <= Len(body) /\ body[iEnd] = "."
      fStart  == IF hasDot THEN iEnd + 1 ELSE iEnd
      fEnd    == SkipDigits(body, fStart)
      fracPart == SubSeq(body, fStart, fEnd - 1)
      hasExp  == fEnd <= Len(body) /\ body[fEnd] \in {"e", "E"}
      eSignAt == fEnd + 1
      eNeg    == hasExp /\ eSignAt <= Len(body) /\ body[eSignAt] = "-"
      eStart  == IF hasExp /\ eSignAt <= Len(body) /\ body[eSignAt] \in {"+", "-"}
                 THEN eSignAt + 1 ELSE eSignAt
      eEnd    == IF hasExp THEN SkipDigits(body, eStart) ELSE fEnd
      expDigits == IF hasExp THEN SubSeq(body, eStart, eEnd - 1) ELSE <<>>
      syntaxOk == /\ Len(intPart) + Len(fracPart) > 0
                  /\ hasExp => Len(expDigits) > 0
                  /\ eEnd = Len(body) + 1
  IN  IF ~syntaxOk THEN NoFloat
      ELSE LET mant == DigitsVal(intPart \o fracPart)
               exp  == IF eNeg THEN 0 - DigitsVal(expDigits) ELSE DigitsVal(expDigits)
               v    == NormFloat(IF neg THEN 0 - mant ELSE mant, Len(fracPart) - exp)
               \* the decimal exponent of the leading digit of the mantissa
               lead == Len(intPart \o fracPart) - 1 - (Len(fracPart) - exp)
           IN  IF mant # 0 /\ lead > MaxFloatExp10 THEN NoFloat
               ELSE [ok |-> TRUE, val |-> v]

ParseFloat(s) ==
  IF s = <<>> THEN NoFloat
  ELSE LET signed == s[1] \in {"+", "-"}
           neg    == s[1] = "-"
           body   == IF signed THEN SubSeq(s, 2, Len(s)) ELSE s
           low    == ToLower(body)
       IN  IF low \in {<<"i", "n", "f">>, <<"i", "n", "f", "i", "n", "i", "t", "y">>}
             THEN [ok |-> TRUE, val |-> FloatInf(neg)]
           ELSE IF ~signed /\ low = <<"n", "a", "n">>
             THEN [ok |-> TRUE, val |-> FloatNaN]
           ELSE ParseDecimal(body, neg)

(***************************************************************************)
(* strconv.ParseInt(s, 10, 64): an optional sign and one or more digits.   *)
(* A value outside int64 is ErrRange (ok = FALSE), decided on the digits.  *)
(***************************************************************************)

MaxInt64 == <<"9", "2", "2", "3", "3", "7", "2", "0", "3", "6",
              "8", "5", "4", "7", "7", "5", "8", "0", "7">>

MinInt64Abs == <<"9", "2", "2", "3", "3", "7", "2", "0", "3", "6",
                 "8", "5", "4", "7", "7", "5", "8", "0", "8">>

RECURSIVE StripZeros(_)
StripZeros(s) ==
  IF Len(s) > 1 /\ s[1] = "0" THEN StripZeros(SubSeq(s, 2, Len(s))) ELSE s

\* a <= b for two digit strings without leading zeros
RECURSIVE DigitsLE(_, _)
DigitsLE(a, b) ==
  IF Len(a) # Len(b) THEN Len(a) < Len(b)
  ELSE IF a = <<>> THEN TRUE
  ELSE IF a[1] # b[1] THEN DigitVal(a[1]) < DigitVal(b[1])
  ELSE DigitsLE(Tail(a), Tail(b))

ParseInt(s) ==
  IF s = <<>> THEN [ok |-> FALSE, val |-> 0]
  ELSE LET signed == s[1] \in {"+", "-"}
           neg    == s[1] = "-"
           body   == IF signed THEN SubSeq(s, 2, Len(s)) ELSE s
           limit  == IF neg THEN MinInt64Abs ELSE MaxInt64
       IN  IF body = <<>> \/ ~AllDigits(body) \/ ~DigitsLE(StripZeros(body), limit)
             THEN [ok |-> FALSE, val |-> 0]
           ELSE [ok |-> TRUE,
                 val |-> IF neg THEN 0 - DigitsVal(body) ELSE DigitsVal(body)]

(***************************************************************************)
(* pkg/utils                                                               *)
(***************************************************************************)

\* s[:len(prefix)] == prefix
HasPrefix(s, prefix) ==
  /\ Len(s) >= Len(prefix)
  /\ SubSeq(s, 1, Len(prefix)) = prefix

IsPrefixIn(s, prefixes) == \E prefix \in prefixes : HasPrefix(s, prefix)

\* One optional group (\d+)U of durationRegex tried at index i of s: the digits
\* it captures and the index after it; no digits and i itself when it does not
\* match there.  (A group that can match must match: the digits are followed
\* by its unit, which no later group accepts.)
DurationGroup(s, i, unit) ==
  LET j == SkipDigits(s, i)
  IN  IF j > i /\ j <= Len(s) /\ s[j] = unit
        THEN [digits |-> SubSeq(s, i, j - 1), next |-> j + 1]
        ELSE [digits |-> <<>>, next |-> i]

\* The groups ((\d+)D)?((\d+)h)?((\d+)m)?((\d+)s)? tried in turn from index i:
\* the digits each captured, and the index after the last one that matched.
RECURSIVE DurationGroups(_, _, _, _)
DurationGroupsNext(s, units, digits, g) ==
  DurationGroups(s, g.next, Tail(units), Append(digits, g.digits))

DurationGroups(s, i, units, digits) ==
  IF units = <<>>
    THEN [next |-> i, digits |-> digits]
    ELSE DurationGroupsNext(s, units, digits, DurationGroup(s, i, Head(units)))

DurationUnits == <<"D", "h", "m", "s">>

\* A match that need not reach the end of the string
DurationMatchOfUnanchored(s, g) ==
  [matched |-> TRUE, sign |-> <<s[1]>>,
   D |-> g.digits[1], h |-> g.digits[2], m |-> g.digits[3], s |-> g.digits[4]]

\* The match list of the groups g found after the sign: empty unless the
\* match reaches the end of the string ($).
DurationMatchOf(s, g) ==
  [matched |-> g.next = Len(s) + 1, sign |-> <<s[1]>>,
   D |-> g.digits[1], h |-> g.digits[2], m |-> g.digits[3], s |-> g.digits[4]]

\* durationRegex.FindStringSubmatch: ^([+-])((\d+)D)?((\d+)h)?((\d+)m)?((\d+)s)?$
\* matched = FALSE stands for the empty match list.
DurationMatch(s) ==
  IF s = <<>> \/ s[1] \notin {"+", "-"}
    THEN [matched |-> FALSE, sign |-> <<>>, D |-> <<>>, h |-> <<>>, m |-> <<>>, s |-> <<>>]
    ELSE DurationMatchOf(s, DurationGroups(s, 2, DurationUnits, <<>>))

\* totalSeconds += v * factor, when ParseFloat gave v without an error
AddParsed(total, parsed, factor) ==
  IF parsed.ok THEN FloatAdd(total, FloatMulInt(parsed.val, factor)) ELSE total

\* One "if matches[k] != "" { v, err := ParseFloat(...); if err == nil
\* { totalSeconds += v * factor } }" step of ParseDurationString.
AddDurationPart(total, digits, factor) ==
  IF digits # <<>> THEN AddParsed(total, ParseFloat(digits), factor) ELSE total

SecondsPerDay == 86400

SecondsPerHour == 3600

SecondsPerMinute == 60

\* A sign that is always 1.0
DurationSignIgnored(matches) == 1

\* sign := 1.0; if matches[1] == "-" { sign = -1.0 }
DurationSign(matches) == IF matches.sign = <<"-">> THEN -1 ELSE 1

\* The body of ParseDurationString after FindStringSubmatch.
DurationSeconds(matches) ==
  IF ~matches.matched
    THEN [ok |-> FALSE, val |-> Float(0)]
    ELSE [ok |-> TRUE,
          val |-> FloatMulInt(
                    AddDurationPart(
                      AddDurationPart(
                        AddDurationPart(
                          AddDurationPart(Float(0), matches.D, SecondsPerDay),
                          matches.h, SecondsPerHour),
                        matches.m, SecondsPerMinute),
                      matches.s, 1),
                    DurationSign(matches))]

ParseDurationString(durationStr) == DurationSeconds(DurationMatch(durationStr))

\* A replacement of the first occurrence alone
ReplaceAllFirst(s, old, new) ==
  [i \in 1..Len(s) |->
     IF s[i] = old /\ (\A k \in 1..(i - 1) : s[k] # old) THEN new ELSE s[i]]

\* strings.ReplaceAll(s, old, new) for one-character old and new
ReplaceAll(s, old, new) == [i \in 1..Len(s) |-> IF s[i] = old THEN new ELSE s[i]]

\* A sanitizer that turns '+' into '-'
SanitizeMetricNamePlusToDash(name) ==
  LET r0 == ToLower(name)
      r1 == ReplaceAll(r0, "-", "_")
      r2 == ReplaceAll(r1, " ", "_")
      r3 == ReplaceAll(r2, ".", "_")
      r4 == ReplaceAll(r3, "/", "_")
  IN  ReplaceAll(r4, "+", "-")

SanitizeMetricName(name) ==
  LET r0 == ToLower(name)
      r1 == ReplaceAll(r0, "-", "_")
      r2 == ReplaceAll(r1, " ", "_")
      r3 == ReplaceAll(r2, ".", "_")
      r4 == ReplaceAll(r3, "/", "_")
  IN  ReplaceAll(r4, "+", "_")

(***************************************************************************)
(* Bounds of the model                                                     *)
(***************************************************************************)

\* Goroutines that call into the collector concurrently.
NumProcs == 2

Procs == 1..NumProcs

(***************************************************************************)
(* State                                                                   *)
(***************************************************************************)

VARIABLES
  DebugMode,               \* utils.DebugMode
  c,                       \* the KnotCollector: its six collect* flags
  mu,                      \* c.mu: the goroutine holding it, 0 when free
  globalStatsDescriptors,  \* map[string][2]*prometheus.Desc
  globalStatsDescMutex,    \* sync.RWMutex: [readers, writer]
  zoneStatsDescriptors,    \* map[string][2]*prometheus.Desc
  zoneStatsDescMutex,      \* sync.RWMutex: [readers, writer]
  descAllocs,              \* per registry and item: pairs built for it so far
  pc,                      \* per goroutine: the statement it is at
  retpc,                   \* per goroutine: where its get call returns to
  getReg,                  \* per goroutine: the get function it is in
  getItem,                 \* per goroutine: the item argument of get
  getFound,                \* per goroutine: "exists" of the read-locked lookup
  getRet,                  \* per goroutine: the pair get returned
  ch,                      \* per goroutine: the metrics sent on its channel
  ph,                      \* per goroutine: the locals of the running phase
  phret,                   \* per goroutine: where the running phase returns to
  pass,                    \* per goroutine: the locals of its Collect call
  ctls,                    \* per goroutine: the control objects of its call
  calls,                   \* per goroutine: transport calls made, by method
  result,                  \* per goroutine: how its last call ended
  streamLeft,              \* per goroutine: records the transport still holds
  utilArg,                 \* the string a utils function is called with on its own
  utilRet                  \* what that call returned

regVars == <<globalStatsDescriptors, globalStatsDescMutex,
             zoneStatsDescriptors, zoneStatsDescMutex, descAllocs>>

getVars == <<retpc, getReg, getItem, getFound, getRet>>

utilVars == <<utilArg, utilRet>>

\* What no step of a pass or of a phase changes: the debug flag, the flags of
\* the collector, and a call of a utils function made on its own.
cfgVars == <<DebugMode, c, utilVars>>

\* What a get function leaves alone besides its own locals.
callerVars == <<cfgVars, mu, ch, ph, phret, pass, ctls, calls, result, streamLeft>>

vars == <<regVars, getVars, callerVars, pc>>

(***************************************************************************)
(* Descriptors.  A *prometheus.Desc is its fully-qualified name, its       *)
(* variable labels and the identity of the allocation (addr); the help     *)
(* text is left out.                                                       *)
(***************************************************************************)

NewDesc(fqName, variableLabels, addr) ==
  [fqName |-> fqName, variableLabels |-> variableLabels, addr |-> addr]

TotalSuffix == <<"_", "t", "o", "t", "a", "l">>

\* A pair whose second descriptor has the name of the first
makeDescPairSameName(fqName, variableLabels, addr) ==
  << NewDesc(fqName, variableLabels, <<addr, 0>>),
     NewDesc(fqName, variableLabels, <<addr, 1>>) >>

\* makeDescPair: the base descriptor and the _total descriptor
makeDescPair(fqName, variableLabels, addr) ==
  << NewDesc(fqName, variableLabels, <<addr, 0>>),
     NewDesc(fqName \o TotalSuffix, variableLabels, <<addr, 1>>) >>

\* The address of what a package-level variable was initialised with.
StaticAddr(fqName) == <<"var", fqName, 0>>

\* A package-level "x = makeDescPair(...)"
StaticDescPair(fqName, variableLabels) ==
  makeDescPair(fqName, variableLabels, StaticAddr(fqName))

\* A package-level "x = prometheus.NewDesc(...)"
StaticDesc(fqName, variableLabels) ==
  NewDesc(fqName, variableLabels, <<StaticAddr(fqName), 0>>)

memoryUsageDesc ==
  StaticDescPair(<<"k", "n", "o", "t", "_", "m", "e", "m", "o", "r", "y", "_", "u",
      "s", "a", "g", "e", "_", "b", "y", "t", "e", "s">>,
                 <<"pid">>)

zoneSerialDesc ==
  StaticDescPair(<<"k", "n", "o", "t", "_", "z", "o", "n", "e", "_", "s", "e", "r",
      "i", "a", "l">>,
                 <<"zone">>)

zoneRefreshDesc ==
  StaticDescPair(<<"k", "n", "o", "t", "_", "z", "o", "n", "e", "_", "r", "e", "f",
      "r", "e", "s", "h", "_", "s", "e", "c", "o", "n", "d", "s">>,
                 <<"zone">>)

zoneRetryDesc ==
  StaticDescPair(<<"k", "n", "o", "t", "_", "z", "o", "n", "e", "_", "r", "e", "t",
      "r", "y", "_", "s", "e", "c", "o", "n", "d", "s">>,
                 <<"zone">>)

zoneExpirationDesc ==
  StaticDescPair(<<"k", "n", "o", "t", "_", "z", "o", "n", "e", "_", "e", "x", "p",
      "i", "r", "a", "t", "i", "o", "n", "_", "s", "e", "c", "o", "n",
      "d", "s">>,
                 <<"zone">>)

zoneStatusExpirationDesc ==
  StaticDescPair(<<"k", "n", "o", "t", "_", "z", "o", "n", "e", "_", "s", "t", "a",
      "t", "u", "s", "_", "e", "x", "p", "i", "r", "a", "t", "i", "o",
      "n", "_", "s", "e", "c", "o", "n", "d", "s">>,
                 <<"zone">>)

zoneStatusRefreshDesc ==
  StaticDescPair(<<"k", "n", "o", "t", "_", "z", "o", "n", "e", "_", "s", "t", "a",
      "t", "u", "s", "_", "r", "e", "f", "r", "e", "s", "h", "_", "s",
      "e", "c", "o", "n", "d", "s">>,
                 <<"zone">>)

buildInfoDesc ==
  StaticDesc(<<"k", "n", "o", "t", "_", "b", "u", "i", "l", "d", "_", "i", "n",
      "f", "o">>,
          <<"version", "build_time", "git_commit", "go_version", "libknot_version", "platform">>)

\* No descriptor pair (a get call that has not returned).
NoDesc == <<>>

(***************************************************************************)
(* The two descriptor registries                                           *)
(***************************************************************************)

Registries == {"global", "zone"}

\* The prefix of the global names as the prefix of the zone names is
GlobalStatsPrefixAsZone ==
  <<"k", "n", "o", "t", "_", "z", "o", "n", "e", "_", "s", "t", "a", "t", "s", "_">>

\* fmt.Sprintf("knot_stats_%s", ...) / fmt.Sprintf("knot_zone_stats_%s", ...)
GlobalStatsPrefix == <<"k", "n", "o", "t", "_", "s", "t", "a", "t", "s", "_">>

ZoneStatsPrefix == <<"k", "n", "o", "t", "_", "z", "o", "n", "e", "_", "s", "t", "a",
      "t", "s", "_">>

\* The labels of the global names as the labels of the zone names are
GlobalStatsLabelsWithZone == <<"zone", "module", "type">>

\* labels := []string{"module", "type"} / []string{"zone", "module", "type"}
GlobalStatsLabels == <<"module", "type">>

ZoneStatsLabels == <<"zone", "module", "type">>

\* The pair getGlobalStatsDescriptor builds for item, allocated at addr.
NewGlobalStatsDesc(item, addr) ==
  makeDescPair(GlobalStatsPrefix \o SanitizeMetricName(item), GlobalStatsLabels, addr)

\* A pair named after the raw statistic name
NewZoneStatsDescRaw(item, addr) ==
  makeDescPair(ZoneStatsPrefix \o item, ZoneStatsLabels, addr)

\* The pair getZoneStatsDescriptor builds for item, allocated at addr.
NewZoneStatsDesc(item, addr) ==
  makeDescPair(ZoneStatsPrefix \o SanitizeMetricName(item), ZoneStatsLabels, addr)

Descriptors(reg) ==
  IF reg = "global" THEN globalStatsDescriptors ELSE zoneStatsDescriptors

DescMutex(reg) ==
  IF reg = "global" THEN globalStatsDescMutex ELSE zoneStatsDescMutex

\* sync.RWMutex: RLock waits while a writer holds the lock.
CanRLock(m) == m.writer = 0

\* Mutant of CanLock: Lock that does not wait for the readers to leave.
CanLockIgnoringReaders(m) == m.writer = 0

\* sync.RWMutex: Lock waits while a writer or any reader holds the lock.
CanLock(m) == m.writer = 0 /\ m.readers = {}

\* The registry reg with its lock set to m and its map left alone.
SetMutex(reg, m) ==
  /\ IF reg = "global"
       THEN globalStatsDescMutex' = m /\ UNCHANGED zoneStatsDescMutex
       ELSE zoneStatsDescMutex' = m /\ UNCHANGED globalStatsDescMutex
  /\ UNCHANGED <<globalStatsDescriptors, zoneStatsDescriptors, descAllocs>>

\* "desc, exists := descriptors[item]": exists
Exists(descriptors, item) == item \in DOMAIN descriptors

\* Mutant of ExistsRecheck: no second lookup under the write lock.
ExistsRecheckSkipped(descriptors, item) == FALSE

\* The second lookup, made under the write lock (the double check).
ExistsRecheck(descriptors, item) == Exists(descriptors, item)

\* Mutant of MapStore: the map is rebuilt with the new entry alone.
MapStoreFresh(descriptors, item, desc) == [k \in {item} |-> desc]

\* descriptors[item] = desc
MapStore(descriptors, item, desc) ==
  [k \in DOMAIN descriptors \cup {item} |-> IF k = item THEN desc ELSE descriptors[k]]

(***************************************************************************)
(* getGlobalStatsDescriptor / getZoneStatsDescriptor, statement by         *)
(* statement.  A goroutine enters at pc "get_rlock" with getReg and        *)
(* getItem set and leaves to retpc with the pair in getRet.                *)
(***************************************************************************)

\* mutex.RLock()
GetRLock(p) ==
  /\ pc[p] = "get_rlock"
  /\ CanRLock(DescMutex(getReg[p]))
  /\ SetMutex(getReg[p], [DescMutex(getReg[p]) EXCEPT !.readers = @ \cup {p}])
  /\ pc' = [pc EXCEPT ![p] = "get_check"]
  /\ UNCHANGED <<getVars, callerVars>>

\* if desc, exists := descriptors[item]; exists
GetCheck(p) ==
  /\ pc[p] = "get_check"
  /\ LET exists == Exists(Descriptors(getReg[p]), getItem[p])
     IN  /\ getFound' = [getFound EXCEPT ![p] = exists]
         /\ getRet' = [getRet EXCEPT ![p] =
                         IF exists THEN Descriptors(getReg[p])[getItem[p]] ELSE NoDesc]
  /\ pc' = [pc EXCEPT ![p] = "get_runlock"]
  /\ UNCHANGED <<regVars, retpc, getReg, getItem, callerVars>>

\* The read lock kept on the way to the write lock
GetRUnlockKept(p) ==
  /\ pc[p] = "get_runlock"
  /\ pc' = [pc EXCEPT ![p] = IF getFound[p] THEN retpc[p] ELSE "get_lock"]
  /\ UNCHANGED <<regVars, getVars, callerVars>>

\* mutex.RUnlock(), then "return desc" on a hit
GetRUnlock(p) ==
  /\ pc[p] = "get_runlock"
  /\ SetMutex(getReg[p], [DescMutex(getReg[p]) EXCEPT !.readers = @ \ {p}])
  /\ pc' = [pc EXCEPT ![p] = IF getFound[p] THEN retpc[p] ELSE "get_lock"]
  /\ UNCHANGED <<getVars, callerVars>>

\* mutex.Lock(); defer mutex.Unlock()
GetLock(p) ==
  /\ pc[p] = "get_lock"
  /\ CanLock(DescMutex(getReg[p]))
  /\ SetMutex(getReg[p], [DescMutex(getReg[p]) EXCEPT !.writer = p])
  /\ pc' = [pc EXCEPT ![p] = "get_recheck"]
  /\ UNCHANGED <<getVars, callerVars>>

\* the double check: if desc, exists := descriptors[item]; exists { return desc }
GetRecheck(p) ==
  /\ pc[p] = "get_recheck"
  /\ IF ExistsRecheck(Descriptors(getReg[p]), getItem[p])
       THEN /\ getRet' = [getRet EXCEPT ![p] = Descriptors(getReg[p])[getItem[p]]]
            /\ pc' = [pc EXCEPT ![p] = "get_unlock"]
       ELSE /\ getRet' = getRet
            /\ pc' = [pc EXCEPT ![p] = "get_insert"]
  /\ UNCHANGED <<regVars, retpc, getReg, getItem, getFound, callerVars>>

\* desc := makeDescPair(...); descriptors[item] = desc
\* The new pair is a fresh allocation: the k-th pair built for this name.
GetInsert(p) ==
  /\ pc[p] = "get_insert"
  /\ LET addr == <<getReg[p], getItem[p], descAllocs[getReg[p]][getItem[p]] + 1>>
         desc == IF getReg[p] = "global"
                   THEN NewGlobalStatsDesc(getItem[p], addr)
                   ELSE NewZoneStatsDesc(getItem[p], addr)
     IN  /\ IF getReg[p] = "global"
              THEN /\ globalStatsDescriptors' =
                        MapStore(globalStatsDescriptors, getItem[p], desc)
                   /\ UNCHANGED zoneStatsDescriptors
              ELSE /\ zoneStatsDescriptors' =
                        MapStore(zoneStatsDescriptors, getItem[p], desc)
                   /\ UNCHANGED globalStatsDescriptors
         /\ getRet' = [getRet EXCEPT ![p] = desc]
  /\ descAllocs' = [descAllocs EXCEPT ![getReg[p]][getItem[p]] = @ + 1]
  /\ pc' = [pc EXCEPT ![p] = "get_unlock"]
  /\ UNCHANGED <<globalStatsDescMutex, zoneStatsDescMutex, retpc, getReg, getItem,
                 getFound, callerVars>>

\* return desc, running the deferred mutex.Unlock()
GetUnlock(p) ==
  /\ pc[p] = "get_unlock"
  /\ SetMutex(getReg[p], [DescMutex(getReg[p]) EXCEPT !.writer = 0])
  /\ pc' = [pc EXCEPT ![p] = retpc[p]]
  /\ UNCHANGED <<getVars, callerVars>>

getStatsDescriptor(p) ==
  \/ GetRLock(p)
  \/ GetCheck(p)
  \/ GetRUnlock(p)
  \/ GetLock(p)
  \/ GetRecheck(p)
  \/ GetInsert(p)
  \/ GetUnlock(p)

(***************************************************************************)
(* Initial values                                                          *)
(***************************************************************************)

\* The raw statistic names the transport delivers in the model.  The two
\* differ only in what SanitizeMetricName folds together (case, '.', '-').
ItemNames == {<<"r", "x", ".", "u", "d", "p">>,
              <<"R", "X", "-", "u", "d", "p">>}

EmptyMap == [k \in {} |-> NoDesc]

UnlockedRW == [readers |-> {}, writer |-> 0]

\* A record's payload pointer when the transport hands back none.
NilData == [nil |-> TRUE]

NoPhase ==
  [count |-> 0, responseCount |-> 0, currentZone |-> <<>>, responseIndex |-> 0,
   dataType |-> "NONE", data |-> NilData, value |-> Float(0), err |-> <<>>, mark |-> 0]

NoPass == [stage |-> 0, ctl |-> 0, defers |-> <<>>]

NoCalls ==
  [New |-> 0, Connect |-> 0, SetTimeout |-> 0, Send |-> 0, Receive |-> 0, Close |-> 0]

Collectors ==
  [collectMemInfo : BOOLEAN, collectStats : BOOLEAN, collectZoneStats : BOOLEAN,
   collectZoneStatus : BOOLEAN, collectZoneTimers : BOOLEAN, collectZoneSerial : BOOLEAN]

AllEnabled ==
  [collectMemInfo |-> TRUE, collectStats |-> TRUE, collectZoneStats |-> TRUE,
   collectZoneStatus |-> TRUE, collectZoneTimers |-> TRUE, collectZoneSerial |-> TRUE]

\* The package-level state after initialisation: empty maps, free locks.
InitRegistries ==
  /\ globalStatsDescriptors = EmptyMap
  /\ zoneStatsDescriptors = EmptyMap
  /\ globalStatsDescMutex = UnlockedRW
  /\ zoneStatsDescMutex = UnlockedRW
  /\ descAllocs = [reg \in Registries |-> [item \in ItemNames |-> 0]]

\* What a utils function returns before it is called.
NotCalled == [called |-> FALSE, ok |-> FALSE, val |-> Float(0)]

\* What a utils function that returns (float64, bool) has returned.
Called(r) == [called |-> TRUE, ok |-> r.ok, val |-> r.val]

\* No utils function has been called on its own.
InitUtils ==
  /\ utilArg = <<>>
  /\ utilRet = NotCalled

\* Goroutines that have called nothing yet.
InitGoroutines ==
  /\ mu = 0
  /\ pc = [p \in Procs |-> "idle"]
  /\ retpc = [p \in Procs |-> "idle"]
  /\ getReg = [p \in Procs |-> "global"]
  /\ getItem = [p \in Procs |-> <<>>]
  /\ getFound = [p \in Procs |-> FALSE]
  /\ getRet = [p \in Procs |-> NoDesc]
  /\ ch = [p \in Procs |-> <<>>]
  /\ ph = [p \in Procs |-> NoPhase]
  /\ phret = [p \in Procs |-> "idle"]
  /\ pass = [p \in Procs |-> NoPass]
  /\ ctls = [p \in Procs |-> <<>>]
  /\ calls = [p \in Procs |-> NoCalls]
  /\ result = [p \in Procs |-> "none"]
  /\ streamLeft = [p \in Procs |-> 0]

(***************************************************************************)
(* SpecReg: goroutines that call the two get functions directly and        *)
(* concurrently, as TestDynamicDescriptorCreation does and as the passes   *)
(* of several collectors in one process do.                                *)
(***************************************************************************)

InitReg ==
  /\ DebugMode = FALSE
  /\ c = AllEnabled
  /\ InitRegistries
  /\ InitGoroutines
  /\ InitUtils

\* desc := getGlobalStatsDescriptor(item) / getZoneStatsDescriptor(item)
RegCall(p) ==
  /\ pc[p] \in {"idle", "got"}
  /\ \E reg \in Registries, item \in ItemNames :
       /\ getReg' = [getReg EXCEPT ![p] = reg]
       /\ getItem' = [getItem EXCEPT ![p] = item]
  /\ getFound' = [getFound EXCEPT ![p] = FALSE]
  /\ getRet' = [getRet EXCEPT ![p] = NoDesc]
  /\ retpc' = [retpc EXCEPT ![p] = "got"]
  /\ pc' = [pc EXCEPT ![p] = "get_rlock"]
  /\ UNCHANGED <<regVars, callerVars>>

NextReg == \E p \in Procs : RegCall(p) \/ getStatsDescriptor(p)

SpecReg == InitReg /\ [][NextReg]_vars

(***************************************************************************)
(* Properties of the descriptor registries (checked under SpecReg)         *)
(***************************************************************************)

\* Goroutines about to read the map of registry reg (either lookup).
MapReaders(reg) ==
  {p \in Procs : getReg[p] = reg /\ pc[p] \in {"get_check", "get_recheck"}}

\* Goroutines about to write the map of registry reg.
MapWriters(reg) == {p \in Procs : getReg[p] = reg /\ pc[p] = "get_insert"}

\* Goroutines whose get call on (reg, item) has returned.
Returned(reg, item) ==
  {p \in Procs : pc[p] = "got" /\ getReg[p] = reg /\ getItem[p] = item}

\* C3: however the goroutines' read-locked checks, unlocks, write-lock
\* acquisitions and re-checks interleave, a pair is built and inserted for a
\* raw name exactly once, and every call for that name returns that one pair.
C3_BuiltOnceSharedByAll ==
  \A reg \in Registries, item \in ItemNames :
    /\ descAllocs[reg][item] = IF item \in DOMAIN Descriptors(reg) THEN 1 ELSE 0
    /\ \A p \in Returned(reg, item) :
         /\ item \in DOMAIN Descriptors(reg)
         /\ getRet[p] = Descriptors(reg)[item]
    /\ \A p, q \in Returned(reg, item) : getRet[p] = getRet[q]

\* C3 witness: all goroutines asked for the same uncached name, every one
\* missed it under the read lock, and every call has returned.
C3_Witness ==
  \E reg \in Registries, item \in ItemNames :
    /\ Returned(reg, item) = Procs
    /\ \A p \in Procs : ~getFound[p]

\* C4: a cached name is never removed and its pair never replaced: every
\* step keeps every entry of both maps (so the cached names only grow), and
\* a get that has returned holds the pair that is cached.
C4_EntriesKept ==
  [][ /\ \A item \in DOMAIN globalStatsDescriptors :
           /\ item \in DOMAIN globalStatsDescriptors'
           /\ globalStatsDescriptors'[item] = globalStatsDescriptors[item]
      /\ \A item \in DOMAIN zoneStatsDescriptors :
           /\ item \in DOMAIN zoneStatsDescriptors'
           /\ zoneStatsDescriptors'[item] = zoneStatsDescriptors[item]
      /\ \A p \in Procs :
           pc'[p] = "got" =>
             /\ getItem'[p] \in DOMAIN Descriptors(getReg[p])'
             /\ getRet'[p] = Descriptors(getReg[p])'[getItem'[p]]
    ]_vars

\* C4 witness: both names are cached in a registry and a later get for one of
\* them has returned it from the read-locked fast path.
C4_Witness ==
  \E reg \in Registries :
    /\ DOMAIN Descriptors(reg) = ItemNames
    /\ \E p \in Procs : pc[p] = "got" /\ getReg[p] = reg /\ getFound[p]

\* C5: a map is written only under its write lock held exclusively (no other
\* goroutine is at a lookup or an insertion of that map, and no reader holds
\* the lock), a lookup is made only under the read lock or the write lock,
\* and a goroutine outside get holds neither lock.
C5_WriteLockExclusive ==
  \A reg \in Registries :
    LET m == DescMutex(reg)
    IN  /\ m.writer # 0 => m.readers = {}
        /\ \A w \in MapWriters(reg) :
             /\ m.writer = w
             /\ MapReaders(reg) \cup MapWriters(reg) = {w}
        /\ \A p \in MapReaders(reg) : p \in m.readers \/ m.writer = p
        /\ \A p \in Procs :
             pc[p] \in {"idle", "got"} => p \notin m.readers /\ m.writer # p

\* C5 witness: two goroutines are at the read-locked lookup of the same map
\* at once, while that map already holds an inserted entry.
C5_Witness ==
  \E reg \in Registries :
    /\ Cardinality({p \in MapReaders(reg) : pc[p] = "get_check"}) >= 2
    /\ DOMAIN Descriptors(reg) # {}

(***************************************************************************)
(* Metrics and the channel                                                 *)
(***************************************************************************)

\* prometheus.MustNewConstMetric(desc, valueType, value, labelValues...)
Metric(desc, valueType, value, labelValues) ==
  [desc |-> desc, valueType |-> valueType, value |-> value, labelValues |-> labelValues]

\* The gauge alone
sendMetricsGaugeOnly(desc, value, labelValues) ==
  << Metric(desc[1], "gauge", value, labelValues) >>

\* sendMetrics: the gauge on desc[0], then the counter on desc[1]
sendMetrics(desc, value, labelValues) ==
  << Metric(desc[1], "gauge", value, labelValues),
     Metric(desc[2], "counter", value, labelValues) >>

\* The metrics put in front of what the channel has taken
SendInFront(p, ms) == ch' = [ch EXCEPT ![p] = ms \o @]

\* ch <- m for each metric of ms, in order
Send(p, ms) == ch' = [ch EXCEPT ![p] = @ \o ms]

(***************************************************************************)
(* The transport: what ReceiveResponse hands back                          *)
(***************************************************************************)

NoErr == <<>>

ErrSend == <<"send failed">>

ErrReceive == <<"receive failed">>

ErrConnect == <<"connect failed">>

\* fmt.Errorf("zone-read SOA command failed: %v", err)
WrapZoneRead(err) == <<"zone-read SOA command failed: %v">> \o err

CtlData(section, item, id, zone, data) ==
  [nil |-> FALSE, Section |-> section, Item |-> item, ID |-> id, Zone |-> zone,
   Data |-> data]

EmptyData == CtlData(<<>>, <<>>, <<>>, <<>>, <<>>)

Response(dataType, data) == [dataType |-> dataType, data |-> data, err |-> NoErr]

\* BLOCK and END, with an empty payload or with none (as the tests' mock).
Terminators ==
  {Response(t, d) : t \in {"BLOCK", "END"}, d \in {EmptyData, NilData}}

ReceiveFailure == [dataType |-> "END", data |-> NilData, err |-> ErrReceive]

IsRecord(r) == r.err = NoErr /\ r.dataType \in {"DATA", "EXTRA"}

(***************************************************************************)
(* The strings the transport delivers in the model                         *)
(***************************************************************************)

Empty == <<>>

SectionServer == <<"s", "e", "r", "v", "e", "r">>

IdUdp == <<"u", "d", "p">>

ZoneCom ==
  <<"e", "x", ".", "c", "o", "m", ".">>

ZoneOrg ==
  <<"e", "x", ".", "o", "r", "g", ".">>

Dash == <<"-">>

NotScheduled == <<"n", "o", "t", " ", "s", "c", "h", "e", "d", "u", "l", "e", "d">>

\* Values of statistics: numbers, and what is no number.
StatValues == {Empty, <<"1", ".", "5">>, <<"n", "/", "a">>}

\* Values of the zone-status fields.
StatusValues ==
  {Empty, Dash, <<"7">>, <<"+", "1", "h", "3", "0", "m">>, <<"+", "0", "s">>,
   <<"p", "e", "n", "d", "i", "n", "g">>, NotScheduled, <<"+", "1", "x">>, <<"+">>}

SoaValid ==
  <<"n", "s", ".", " ", "a", "d", ".", " ", "7", " ", "3", "6", "0", "0",
     " ", "6", "0", "0", " ", "8", "6", "4", "0", "0", " ", "3", "0", "0">>

\* Six fields only.
SoaShort ==
  <<"n", "s", ".", " ", "a", "d", ".", " ", "7", " ", "3", "6", "0", "0",
     " ", "6", "0", "0", " ", "8", "6", "4", "0", "0">>

\* Eight fields.
SoaLong ==
  <<"n", "s", ".", " ", "a", "d", ".", " ", "7", " ", "3", "6", "0", "0",
     " ", "6", "0", "0", " ", "8", "6", "4", "0", "0", " ", "3", "0", "0",
     " ", "1">>

\* Field 0 without the trailing dot.
SoaNoDot0 ==
  <<"n", "s", " ", "a", "d", ".", " ", "7", " ", "3", "6", "0", "0", " ",
     "6", "0", "0", " ", "8", "6", "4", "0", "0", " ", "3", "0", "0">>

\* Field 1 without the trailing dot.
SoaNoDot1 ==
  <<"n", "s", ".", " ", "a", "d", " ", "7", " ", "3", "6", "0", "0", " ",
     "6", "0", "0", " ", "8", "6", "4", "0", "0", " ", "3", "0", "0">>

\* Field 6 is no integer.
SoaBadMinimum ==
  <<"n", "s", ".", " ", "a", "d", ".", " ", "7", " ", "3", "6", "0", "0",
     " ", "6", "0", "0", " ", "8", "6", "4", "0", "0", " ", "3", "x">>

\* Field 3 is no integer.
SoaBadRefresh ==
  <<"n", "s", ".", " ", "a", "d", ".", " ", "7", " ", "1", "h", " ", "6",
     "0", "0", " ", "8", "6", "4", "0", "0", " ", "3", "0", "0">>

SoaValues ==
  {Empty, SoaValid, SoaShort, SoaLong, SoaNoDot0, SoaNoDot1, SoaBadMinimum, SoaBadRefresh}

\* What the stats command is answered with.
GlobalRecords ==
  {Response(t, CtlData(SectionServer, item, id, Empty, data)) :
     t \in {"DATA", "EXTRA"}, item \in ItemNames \cup {Empty},
     id \in {Empty, IdUdp}, data \in StatValues}

\* What the zone-status command is answered with.
StatusRecords ==
  {Response("DATA", CtlData(Empty, Empty, Empty, zone, Empty)) :
      zone \in {Empty, ZoneCom, ZoneOrg}}
  \cup {Response("EXTRA", CtlData(Empty, Empty, Empty, Empty, data)) :
      data \in StatusValues}

\* What the zone-stats command is answered with.
ZoneStatsRecords ==
  {Response(t, CtlData(SectionServer, item, id, zone, data)) :
     t \in {"DATA", "EXTRA"}, item \in ItemNames \cup {Empty},
     id \in {Empty, IdUdp}, zone \in {Empty, ZoneCom}, data \in StatValues}

\* What the zone-read SOA command is answered with.
TimerRecords ==
  {Response(t, CtlData(Empty, Empty, Empty, zone, data)) :
     t \in {"DATA", "EXTRA"}, zone \in {Empty, ZoneCom}, data \in SoaValues}

(***************************************************************************)
(* What the phases share                                                   *)
(***************************************************************************)

\* return err (nil included) from the running phase: its locals are gone
PhaseReturn(p, err) ==
  /\ ph' = [ph EXCEPT ![p] = [NoPhase EXCEPT !.err = err]]
  /\ pc' = [pc EXCEPT ![p] = phret[p]]

\* A nil pointer dereference: the goroutine panics and unwinds.
PhasePanic(p, locals) ==
  /\ ph' = [ph EXCEPT ![p] = locals]
  /\ pc' = [pc EXCEPT ![p] = "unwind"]

\* ctl.SendCommand(cmd) / ctl.SendCommandWithType(cmd, rtype) on the current
\* control object: counted, and noted on the object.
CtlSend(p, cmd) ==
  /\ calls' = [calls EXCEPT ![p].Send = @ + 1]
  /\ ctls' = [ctls EXCEPT ![p][pass[p].ctl].sent = Append(@, cmd)]

\* ctl.ReceiveResponse(): counted
CtlReceive(p) == calls' = [calls EXCEPT ![p].Receive = @ + 1]

\* An error that goes unnoticed
SendFailedIgnored(err) == FALSE

\* if err := ctl.SendCommand(...); err != nil
SendFailed(err) == err # NoErr

\* A response taken without a look at its error
ReceiveFailedIgnored(r) == FALSE

\* dataType, data, err := ctl.ReceiveResponse(); if err != nil
ReceiveFailed(r) == r.err # NoErr

\* A record that gives no observation ends the phase with an error
SkipRecordReturns(p, locals) ==
  /\ ph' = [ph EXCEPT ![p] = [NoPhase EXCEPT !.err = <<"bad record">>]]
  /\ pc' = [pc EXCEPT ![p] = phret[p]]

\* A record that gives no observation: on to the next turn of the loop.
SkipRecord(p, locals) ==
  /\ ph' = [ph EXCEPT ![p] = locals]
  /\ pc' = pc

\* A loop that END alone ends
LoopBreakOnEndOnly(dataType) == dataType = "END"

\* if dataType == libknot.CtlTypeBlock || dataType == libknot.CtlTypeEnd { break }
LoopBreak(dataType) == dataType \in {"BLOCK", "END"}

\* An index that stays where it is
NextResponseIndexStuck(responseIndex) == responseIndex

\* responseIndex++
NextResponseIndex(responseIndex) == responseIndex + 1

\* The locals after "dataType, data, err := ctl.ReceiveResponse()"; mark notes
\* how many metrics the channel had taken by then.
Received(p, r) ==
  [ph[p] EXCEPT !.dataType = r.dataType, !.data = r.data, !.mark = Len(ch[p])]

\* desc := getGlobalStatsDescriptor(item) / getZoneStatsDescriptor(item),
\* coming back to the statement at back
CallGet(p, reg, item, back) ==
  /\ getReg' = [getReg EXCEPT ![p] = reg]
  /\ getItem' = [getItem EXCEPT ![p] = item]
  /\ getFound' = [getFound EXCEPT ![p] = FALSE]
  /\ getRet' = [getRet EXCEPT ![p] = NoDesc]
  /\ retpc' = [retpc EXCEPT ![p] = back]
  /\ pc' = [pc EXCEPT ![p] = "get_rlock"]

\* What a phase step leaves alone when it calls no get function.
phaseFrame == <<regVars, getVars, cfgVars, mu, phret, pass, result, streamLeft>>

\* What a receiving step leaves alone; the stream is the transport's to move.
recvFrame == <<regVars, getVars, cfgVars, mu, phret, pass, result>>

\* What a receiving step leaves alone when it may call a get function.
recvCallFrame == <<regVars, cfgVars, mu, phret, pass, result>>

(***************************************************************************)
(* collectGlobalStats                                                      *)
(***************************************************************************)

\* "Debug every response for the first 20 responses"
DebugResponsesGlobal == 20

\* if err := ctl.SendCommand("stats"); err != nil { return err }
GsSend(p, err) ==
  /\ pc[p] = "gs_send"
  /\ CtlSend(p, "stats")
  /\ IF SendFailed(err)
       THEN PhaseReturn(p, err)
       ELSE /\ ph' = [ph EXCEPT ![p] = NoPhase]
            /\ pc' = [pc EXCEPT ![p] = "gs_recv"]
  /\ UNCHANGED <<phaseFrame, ch>>

\* Global stat also asks for an id
GsHasFieldsWithId(data) == data.Item # Empty /\ data.Data # Empty /\ data.ID # Empty

\* data.Item != "" && data.Data != ""
GsHasFields(data) == data.Item # Empty /\ data.Data # Empty

\* One turn of the loop: receive a response and handle it, up to the call of
\* getGlobalStatsDescriptor.
GsRecv(p, r) ==
  /\ pc[p] = "gs_recv"
  /\ CtlReceive(p)
  /\ LET got == [Received(p, r) EXCEPT !.responseCount = @ + 1]
     IN  IF ReceiveFailed(r)
           THEN PhaseReturn(p, r.err) /\ UNCHANGED getVars
         ELSE IF /\ r.data.nil
                 /\ \/ DebugMode /\ got.responseCount <= DebugResponsesGlobal
                    \/ r.dataType \in {"DATA", "EXTRA"}
           THEN PhasePanic(p, got) /\ UNCHANGED getVars
         ELSE IF LoopBreak(r.dataType)
           THEN PhaseReturn(p, NoErr) /\ UNCHANGED getVars
         ELSE IF r.dataType \in {"DATA", "EXTRA"} /\ GsHasFields(r.data)
           THEN LET value == ParseFloat(r.data.Data)
                IN  IF value.ok
                      THEN /\ ph' = [ph EXCEPT ![p] =
                                       [got EXCEPT !.count = @ + 1, !.value = value.val]]
                           /\ CallGet(p, "global", r.data.Item, "gs_emit")
                      ELSE /\ SkipRecord(p, [got EXCEPT !.count = @ + 1])
                           /\ UNCHANGED getVars
         ELSE /\ SkipRecord(p, got)
              /\ UNCHANGED getVars
  /\ UNCHANGED <<recvCallFrame, ch, ctls>>

\* sendMetrics(ch, desc, value, data.Section, data.ID)
GsEmit(p) ==
  /\ pc[p] = "gs_emit"
  /\ Send(p, sendMetrics(getRet[p], ph[p].value, <<ph[p].data.Section, ph[p].data.ID>>))
  /\ pc' = [pc EXCEPT ![p] = "gs_recv"]
  /\ UNCHANGED <<phaseFrame, ph, ctls, calls>>

(***************************************************************************)
(* collectZoneStatusInfo                                                   *)
(***************************************************************************)

\* "Debug first 10 records only in debug mode"
DebugResponsesZoneStatus == 10

StatePrefixes == {<<"p","e","n","d","i","n","g">>, <<"r","u","n","n","i","n","g">>,
                  <<"f","r","o","z","e","n">>}

NoSeconds == [present |-> FALSE, val |-> Float(0)]

\* convertStateTime: a *float64, nil being present = FALSE
convertStateTime(timeStr) ==
  IF IsPrefixIn(timeStr, StatePrefixes)
    THEN [present |-> TRUE, val |-> Float(0)]
  ELSE IF timeStr = NotScheduled \/ timeStr = Dash
    THEN NoSeconds
  ELSE LET parsed == ParseDurationString(timeStr)
       IN  IF parsed.ok THEN [present |-> TRUE, val |-> parsed.val] ELSE NoSeconds

\* if err := ctl.SendCommand("zone-status"); err != nil { return err }
ZsSend(p, err) ==
  /\ pc[p] = "zs_send"
  /\ CtlSend(p, "zone-status")
  /\ IF SendFailed(err)
       THEN PhaseReturn(p, err)
       ELSE /\ ph' = [ph EXCEPT ![p] = NoPhase]
            /\ pc' = [pc EXCEPT ![p] = "zs_recv"]
  /\ UNCHANGED <<phaseFrame, ch>>

\* The serial taken at index 1 whatever the serial flag says
ZsSerialUnflagged(cfg, responseIndex, currentZone, data) ==
  IF responseIndex = 1 /\ ParseFloat(data.Data).ok
    THEN sendMetrics(zoneSerialDesc, ParseFloat(data.Data).val, <<currentZone>>)
    ELSE <<>>

\* if c.collectZoneSerial && responseIndex == 1 { ... }
ZsSerial(cfg, responseIndex, currentZone, data) ==
  IF cfg.collectZoneSerial /\ responseIndex = 1
    THEN LET serial == ParseFloat(data.Data)
         IN  IF serial.ok
               THEN sendMetrics(zoneSerialDesc, serial.val, <<currentZone>>)
               ELSE <<>>
    ELSE <<>>

\* The desc of "switch responseIndex": case 7, case 9, and no default.
ZsTimerDesc(responseIndex) ==
  CASE responseIndex = 7 -> zoneStatusRefreshDesc
    [] responseIndex = 9 -> zoneStatusExpirationDesc
    [] OTHER -> NoDesc

\* if c.collectZoneStatus && data.Data != "" && data.Data != "-" { switch ... }
ZsTimers(cfg, responseIndex, currentZone, data) ==
  IF cfg.collectZoneStatus /\ data.Data # Empty /\ data.Data # Dash
       /\ ZsTimerDesc(responseIndex) # NoDesc
    THEN LET seconds == convertStateTime(data.Data)
         IN  IF seconds.present
               THEN sendMetrics(ZsTimerDesc(responseIndex), seconds.val, <<currentZone>>)
               ELSE <<>>
    ELSE <<>>

\* Where the loop body reads a field of data for this response.
ZsReadsData(cfg, locals, debug) ==
  \/ debug /\ locals.responseCount <= DebugResponsesZoneStatus
  \/ locals.dataType = "DATA"
  \/ /\ locals.dataType = "EXTRA"
     /\ locals.currentZone # Empty
     /\ \/ cfg.collectZoneSerial /\ locals.responseIndex + 1 = 1
        \/ cfg.collectZoneStatus

\* One turn of the loop.
ZsRecv(p, r) ==
  /\ pc[p] = "zs_recv"
  /\ CtlReceive(p)
  /\ LET got == [Received(p, r) EXCEPT !.responseCount = @ + 1]
     IN  IF ReceiveFailed(r)
           THEN PhaseReturn(p, r.err) /\ UNCHANGED ch
         ELSE IF r.data.nil /\ ZsReadsData(c, got, DebugMode)
           THEN PhasePanic(p, got) /\ UNCHANGED ch
         ELSE IF LoopBreak(r.dataType)
           THEN PhaseReturn(p, NoErr) /\ UNCHANGED ch
         ELSE IF r.dataType \in {"DATA", "EXTRA"}
           THEN IF r.dataType = "DATA" /\ r.data.Zone # Empty
                     /\ r.data.Zone # got.currentZone
                  THEN /\ ph' = [ph EXCEPT ![p] =
                                   [got EXCEPT !.count = @ + 1,
                                               !.currentZone = r.data.Zone,
                                               !.responseIndex = 0]]
                       /\ pc' = pc
                       /\ UNCHANGED ch
                ELSE IF r.dataType = "EXTRA" /\ got.currentZone # Empty
                  THEN LET responseIndex == NextResponseIndex(got.responseIndex)
                       IN  /\ ph' = [ph EXCEPT ![p] =
                                       [got EXCEPT !.count = @ + 1,
                                                   !.responseIndex = responseIndex]]
                           /\ pc' = pc
                           /\ Send(p, ZsSerial(c, responseIndex, got.currentZone, r.data)
                                      \o ZsTimers(c, responseIndex, got.currentZone, r.data))
                ELSE /\ ph' = [ph EXCEPT ![p] = [got EXCEPT !.count = @ + 1]]
                     /\ pc' = pc
                     /\ UNCHANGED ch
         ELSE /\ ph' = [ph EXCEPT ![p] = got]
              /\ pc' = pc
              /\ UNCHANGED ch
  /\ UNCHANGED <<recvFrame, ctls>>

(***************************************************************************)
(* collectZoneStatistics                                                   *)
(***************************************************************************)

\* "Debug first 10 responses only in debug mode"
DebugResponsesZoneStats == 10

\* if err := ctl.SendCommand("zone-stats"); err != nil { return err }
ZstSend(p, err) ==
  /\ pc[p] = "zst_send"
  /\ CtlSend(p, "zone-stats")
  /\ IF SendFailed(err)
       THEN PhaseReturn(p, err)
       ELSE /\ ph' = [ph EXCEPT ![p] = NoPhase]
            /\ pc' = [pc EXCEPT ![p] = "zst_recv"]
  /\ UNCHANGED <<phaseFrame, ch>>

\* Zone stat drops the zone requirement
ZstHasFieldsNoZone(data) == data.Item # Empty /\ data.Data # Empty

\* data.Zone != "" && data.Item != "" && data.Data != ""
ZstHasFields(data) == data.Zone # Empty /\ data.Item # Empty /\ data.Data # Empty

\* One turn of the loop, up to the call of getZoneStatsDescriptor.
ZstRecv(p, r) ==
  /\ pc[p] = "zst_recv"
  /\ CtlReceive(p)
  /\ LET got == [Received(p, r) EXCEPT !.responseCount = @ + 1]
     IN  IF ReceiveFailed(r)
           THEN PhaseReturn(p, r.err) /\ UNCHANGED getVars
         ELSE IF /\ r.data.nil
                 /\ \/ DebugMode /\ got.responseCount <= DebugResponsesZoneStats
                    \/ r.dataType \in {"DATA", "EXTRA"}
           THEN PhasePanic(p, got) /\ UNCHANGED getVars
         ELSE IF LoopBreak(r.dataType)
           THEN PhaseReturn(p, NoErr) /\ UNCHANGED getVars
         ELSE IF r.dataType \in {"DATA", "EXTRA"} /\ ZstHasFields(r.data)
           THEN LET value == ParseFloat(r.data.Data)
                IN  IF value.ok
                      THEN /\ ph' = [ph EXCEPT ![p] =
                                       [got EXCEPT !.count = @ + 1, !.value = value.val]]
                           /\ CallGet(p, "zone", r.data.Item, "zst_emit")
                      ELSE /\ SkipRecord(p, [got EXCEPT !.count = @ + 1])
                           /\ UNCHANGED getVars
         ELSE /\ SkipRecord(p, got)
              /\ UNCHANGED getVars
  /\ UNCHANGED <<recvCallFrame, ch, ctls>>

\* sendMetrics(ch, desc, value, data.Zone, data.Section, statSubtype)
ZstEmit(p) ==
  /\ pc[p] = "zst_emit"
  /\ Send(p, sendMetrics(getRet[p], ph[p].value,
                         <<ph[p].data.Zone, ph[p].data.Section, ph[p].data.ID>>))
  /\ pc' = [pc EXCEPT ![p] = "zst_recv"]
  /\ UNCHANGED <<phaseFrame, ph, ctls, calls>>

(***************************************************************************)
(* collectZoneTimerInfo                                                    *)
(***************************************************************************)

\* maxResponses := 100000
MaxResponses == 100000

\* "Debug first 10 records only in debug mode"
DebugResponsesZoneTimers == 10

\* if err := ctl.SendCommandWithType("zone-read", "SOA"); err != nil { ... }
ZtSend(p, err) ==
  /\ pc[p] = "zt_send"
  /\ CtlSend(p, "zone-read SOA")
  /\ IF SendFailed(err)
       THEN PhaseReturn(p, WrapZoneRead(err))
       ELSE /\ ph' = [ph EXCEPT ![p] = NoPhase]
            /\ pc' = [pc EXCEPT ![p] = "zt_recv"]
  /\ UNCHANGED <<phaseFrame, ch>>

\* The numeric check of fields 2 to 6 (here 3 to 7: sequences count from 1).
SoaAllNumeric(soaFields) == \A i \in 3..7 : ParseInt(soaFields[i]).ok

\* The shape check that takes the admin field as it comes
SoaAcceptedAnyAdmin(soaFields) ==
  /\ Len(soaFields) = 7
  /\ HasSuffix(soaFields[1], <<".">>)
  /\ SoaAllNumeric(soaFields)

\* len(soaFields) == 7, isPrimarySuffix && isAdminValid, allNumeric
SoaAccepted(soaFields) ==
  /\ Len(soaFields) = 7
  /\ HasSuffix(soaFields[1], <<".">>)
  /\ HasSuffix(soaFields[2], <<".">>)
  /\ SoaAllNumeric(soaFields)

\* float64(numericValues[i])
SoaNumeric(soaFields, i) == Float(ParseInt(soaFields[i + 3]).val)

\* The three sendMetrics calls of an accepted record.
ZtMetrics(zone, soaFields) ==
  sendMetrics(zoneRefreshDesc, SoaNumeric(soaFields, 1), <<zone>>)
  \o sendMetrics(zoneRetryDesc, SoaNumeric(soaFields, 2), <<zone>>)
  \o sendMetrics(zoneExpirationDesc, SoaNumeric(soaFields, 3), <<zone>>)

\* A loop that takes one response more
ZtLoopCondInclusive(count) == count <= MaxResponses

\* for count < maxResponses
ZtLoopCond(count) == count < MaxResponses

\* One turn of "for count < maxResponses".
ZtRecv(p, r) ==
  /\ pc[p] = "zt_recv"
  /\ ZtLoopCond(ph[p].count)
  /\ CtlReceive(p)
  /\ LET got == [Received(p, r) EXCEPT !.count = @ + 1]
     IN  IF ReceiveFailed(r)
           THEN PhaseReturn(p, r.err) /\ UNCHANGED ch
         ELSE IF /\ r.data.nil
                 /\ \/ DebugMode /\ got.count <= DebugResponsesZoneTimers
                    \/ r.dataType = "DATA"
           THEN PhasePanic(p, got) /\ UNCHANGED ch
         ELSE IF LoopBreak(r.dataType)
           THEN PhaseReturn(p, NoErr) /\ UNCHANGED ch
         ELSE /\ ph' = [ph EXCEPT ![p] = got]
              /\ pc' = pc
              /\ IF r.dataType = "DATA" /\ r.data.Zone # Empty
                      /\ SoaAccepted(Fields(r.data.Data))
                   THEN Send(p, ZtMetrics(r.data.Zone, Fields(r.data.Data)))
                   ELSE UNCHANGED ch
  /\ UNCHANGED <<recvFrame, ctls>>

\* The loop condition fails: count has reached maxResponses; return nil.
ZtLimit(p) ==
  /\ pc[p] = "zt_recv"
  /\ ~ZtLoopCond(ph[p].count)
  /\ PhaseReturn(p, NoErr)
  /\ UNCHANGED <<phaseFrame, ch, ctls, calls>>

\* The goroutine unwinds after a panic in a phase called on its own: the
\* panic reaches the caller.
Unwind(p) ==
  /\ pc[p] = "unwind"
  /\ pass[p].stage = 0
  /\ result' = [result EXCEPT ![p] = "panic"]
  /\ pc' = [pc EXCEPT ![p] = "panicked"]
  /\ UNCHANGED <<regVars, getVars, cfgVars, mu, ch, ph, phret, pass, ctls, calls, streamLeft>>

(***************************************************************************)
(* The transport's side of a receive                                       *)
(***************************************************************************)

\* The records the server answers the sent command with.
RecordsFor(p) ==
  CASE pc[p] = "gs_recv" -> GlobalRecords
    [] pc[p] = "zs_recv" -> StatusRecords
    [] pc[p] = "zst_recv" -> ZoneStatsRecords
    [] pc[p] = "zt_recv" -> TimerRecords
    [] OTHER -> {}

\* What ReceiveResponse may hand back now: a record while the stream has
\* some, a terminator, or an error.
Stream(p) ==
  Terminators \cup {ReceiveFailure}
    \cup (IF streamLeft[p] > 0 THEN RecordsFor(p) ELSE {})

\* The stream moves on by the record it delivered.
Deliver(p, r) ==
  streamLeft' = [streamLeft EXCEPT ![p] = IF IsRecord(r) THEN @ - 1 ELSE @]

\* What SendCommand may return.
SendOutcomes == {NoErr, ErrSend}

(***************************************************************************)
(* SpecPhase: one phase function called on its own with a control object   *)
(* that is already connected, as the tests of the phases do with their     *)
(* mock.                                                                   *)
(***************************************************************************)

\* Records a stream carries before its terminator, outside zone status.
MaxRecv == 3

\* Records a zone-status stream carries before its terminator.
MaxStatusRecv == 10

Phases == {"gs", "zs", "zst", "zt"}

SendPc(phase) ==
  CASE phase = "gs" -> "gs_send"
    [] phase = "zs" -> "zs_send"
    [] phase = "zst" -> "zst_send"
    [] phase = "zt" -> "zt_send"

\* A control object: its handle (ctl: k.ctl != nil), connected or not, the
\* commands sent on it, the Close calls, and how often the handle was closed
\* and freed.
NewCtl == [ctl |-> TRUE, connected |-> FALSE, sent |-> <<>>, closed |-> 0, freed |-> 0]

\* The collectors the tests build: the zone-status phase is the one that
\* reads flags.
PhaseCollectors(phase) ==
  IF phase = "zs"
    THEN {cfg \in Collectors :
            /\ cfg.collectMemInfo /\ cfg.collectStats /\ cfg.collectZoneStats}
    ELSE {AllEnabled}

InitPhase ==
  /\ DebugMode \in BOOLEAN
  /\ c = AllEnabled
  /\ InitRegistries
  /\ InitGoroutines
  /\ InitUtils

\* collector := NewKnotCollector(...); err := collector.collectX(mockCtl, ch)
PhaseCall(p) ==
  /\ pc[p] = "idle"
  /\ p = 1
  /\ \E phase \in Phases :
       /\ c' \in PhaseCollectors(phase)
       /\ pc' = [pc EXCEPT ![p] = SendPc(phase)]
       /\ streamLeft' = [streamLeft EXCEPT ![p] =
                           IF phase = "zs" THEN MaxStatusRecv ELSE MaxRecv]
  /\ phret' = [phret EXCEPT ![p] = "returned"]
  /\ ctls' = [ctls EXCEPT ![p] = <<[NewCtl EXCEPT !.connected = TRUE]>>]
  /\ pass' = [pass EXCEPT ![p] = [NoPass EXCEPT !.ctl = 1]]
  /\ UNCHANGED <<regVars, getVars, DebugMode, utilVars, mu, ch, ph, calls, result>>

PhaseSend(p) ==
  \E err \in SendOutcomes :
    GsSend(p, err) \/ ZsSend(p, err) \/ ZstSend(p, err) \/ ZtSend(p, err)

PhaseRecv(p) ==
  \E r \in Stream(p) :
    /\ GsRecv(p, r) \/ ZsRecv(p, r) \/ ZstRecv(p, r) \/ ZtRecv(p, r)
    /\ Deliver(p, r)

PhaseEmit(p) == GsEmit(p) \/ ZstEmit(p)

NextPhase ==
  \E p \in Procs :
    \/ PhaseCall(p)
    \/ PhaseSend(p)
    \/ PhaseRecv(p)
    \/ getStatsDescriptor(p)
    \/ PhaseEmit(p)
    \/ Unwind(p)

SpecPhase == InitPhase /\ [][NextPhase]_vars

(***************************************************************************)
(* SpecTimerLimit: collectZoneTimerInfo called on its own against a        *)
(* transport that answers every receive with a record: it never delivers   *)
(* BLOCK or END and never fails.                                           *)
(***************************************************************************)

\* Acceptable SOA records at the head of the endless stream.
MaxSoaRecords == 1

SoaRecord == Response("DATA", CtlData(Empty, Empty, Empty, ZoneCom, SoaValid))

\* What follows them, without end.
OtherRecords == {Response("DATA", CtlData(Empty, Empty, Empty, ZoneCom, SoaShort))}

EndlessStream(p) == IF streamLeft[p] > 0 THEN {SoaRecord} ELSE OtherRecords

DeliverEndless(p, r) ==
  streamLeft' = [streamLeft EXCEPT ![p] = IF r = SoaRecord THEN @ - 1 ELSE @]

InitTimerLimit ==
  /\ DebugMode = FALSE
  /\ c = AllEnabled
  /\ InitRegistries
  /\ InitGoroutines
  /\ InitUtils

\* err := collector.collectZoneTimerInfo(ctl, ch)
TimerCall(p) ==
  /\ pc[p] = "idle"
  /\ p = 1
  /\ pc' = [pc EXCEPT ![p] = "zt_send"]
  /\ streamLeft' = [streamLeft EXCEPT ![p] = MaxSoaRecords]
  /\ phret' = [phret EXCEPT ![p] = "returned"]
  /\ ctls' = [ctls EXCEPT ![p] = <<[NewCtl EXCEPT !.connected = TRUE]>>]
  /\ pass' = [pass EXCEPT ![p] = [NoPass EXCEPT !.ctl = 1]]
  /\ UNCHANGED <<regVars, getVars, cfgVars, mu, ch, ph, calls, result>>

TimerRecv(p) == \E r \in EndlessStream(p) : ZtRecv(p, r) /\ DeliverEndless(p, r)

NextTimerLimit ==
  \E p \in Procs :
    \/ TimerCall(p)
    \/ ZtSend(p, NoErr)
    \/ TimerRecv(p)
    \/ ZtLimit(p)

SpecTimerLimit == InitTimerLimit /\ [][NextTimerLimit]_vars

(***************************************************************************)
(* The phases: what one record produces                                    *)
(***************************************************************************)

\* The observations the phase of p has sent since its last receive.
Produced(p) == SubSeq(ch[p], ph[p].mark + 1, Len(ch[p]))

\* A gauge on the first descriptor of the pair and a counter on the second.
PairOf(desc, value, labelValues) ==
  << [desc |-> desc[1], valueType |-> "gauge", value |-> value,
      labelValues |-> labelValues],
     [desc |-> desc[2], valueType |-> "counter", value |-> value,
      labelValues |-> labelValues] >>

\* p has handled an EXTRA record within a zone context and is back at the
\* head of the zone-status loop.
C6_Handled(p) ==
  pc[p] = "zs_recv" /\ ph[p].dataType = "EXTRA" /\ ph[p].currentZone # Empty

C6_Serial(p) ==
  IF /\ ph[p].responseIndex = 1
     /\ c.collectZoneSerial
     /\ ParseFloat(ph[p].data.Data).ok
    THEN PairOf(zoneSerialDesc, ParseFloat(ph[p].data.Data).val, <<ph[p].currentZone>>)
    ELSE <<>>

C6_Timer(p, index, desc) ==
  IF /\ ph[p].responseIndex = index
     /\ c.collectZoneStatus
     /\ ph[p].data.Data # <<>>
     /\ ph[p].data.Data # <<"-">>
     /\ convertStateTime(ph[p].data.Data).present
    THEN PairOf(desc, convertStateTime(ph[p].data.Data).val, <<ph[p].currentZone>>)
    ELSE <<>>

\* C6: in the zone-status phase, within a zone context, the EXTRA record at
\* index 1 produces the zone-serial pair iff serial collection is enabled and
\* its value parses as a number; the EXTRA records at index 7 and 9 produce
\* the zone-status-refresh and the zone-status-expiration pair iff zone-status
\* collection is enabled, the value is neither empty nor "-", and the
\* conversion yields a present value; at any other index nothing is produced;
\* every observation carries the current zone as its label.
C6_ZoneStatusByIndex ==
  \A p \in Procs :
    C6_Handled(p) =>
      Produced(p) = C6_Serial(p)
                      \o C6_Timer(p, 7, zoneStatusRefreshDesc)
                      \o C6_Timer(p, 9, zoneStatusExpirationDesc)

\* The record at index 9 has produced the expiration pair, after the serial
\* pair at index 1 and the refresh pair at index 7 of the same zone.
C6_Witness ==
  \E p \in Procs :
    /\ C6_Handled(p)
    /\ ph[p].responseIndex = 9
    /\ Len(Produced(p)) = 2
    /\ Len(ch[p]) = 6
    /\ ch[p][1].desc = zoneSerialDesc[1]
    /\ ch[p][3].desc = zoneStatusRefreshDesc[1]
    /\ ch[p][5].desc = zoneStatusExpirationDesc[1]

\* p has handled a DATA or EXTRA record and is back at the head of the loop.
HandledRecord(p, loop) == pc[p] = loop /\ ph[p].dataType \in {"DATA", "EXTRA"}

IsNumber(value) == ParseFloat(value).ok

\* C7: in the global-statistics phase a DATA or EXTRA record whose item and
\* value are non-empty and whose value parses as a number produces exactly two
\* observations, on the pair registered for its item, with that value and the
\* label values (section, id); every other record produces none and is no error.
C7_GlobalStatsPerRecord ==
  \A p \in Procs :
    HandledRecord(p, "gs_recv") =>
      LET data == ph[p].data
      IN  /\ ph[p].err = <<>>
          /\ IF data.Item # <<>> /\ data.Data # <<>> /\ IsNumber(data.Data)
               THEN /\ data.Item \in DOMAIN globalStatsDescriptors
                    /\ Produced(p) = PairOf(globalStatsDescriptors[data.Item],
                                            ParseFloat(data.Data).val,
                                            <<data.Section, data.ID>>)
               ELSE Produced(p) = <<>>

\* A second qualifying record, with an id, has produced its two observations.
C7_Witness ==
  \E p \in Procs :
    /\ HandledRecord(p, "gs_recv")
    /\ ph[p].data.ID # <<>>
    /\ Len(Produced(p)) = 2
    /\ Len(ch[p]) = 4

\* C8: in the zone-statistics phase a DATA or EXTRA record whose zone, item and
\* value are non-empty and whose value parses as a number produces exactly two
\* observations, on the pair registered for its item in the per-zone registry,
\* with that value and the label values (zone, section, id); a record missing
\* one of the three fields or failing the parse produces none and is no error.
C8_ZoneStatsPerRecord ==
  \A p \in Procs :
    HandledRecord(p, "zst_recv") =>
      LET data == ph[p].data
      IN  /\ ph[p].err = <<>>
          /\ IF /\ data.Zone # <<>> /\ data.Item # <<>> /\ data.Data # <<>>
                /\ IsNumber(data.Data)
               THEN /\ data.Item \in DOMAIN zoneStatsDescriptors
                    /\ Produced(p) = PairOf(zoneStatsDescriptors[data.Item],
                                            ParseFloat(data.Data).val,
                                            <<data.Zone, data.Section, data.ID>>)
               ELSE Produced(p) = <<>>

\* A second qualifying record, with an id, has produced its two observations.
C8_Witness ==
  \E p \in Procs :
    /\ HandledRecord(p, "zst_recv")
    /\ ph[p].data.ID # <<>>
    /\ Len(Produced(p)) = 2
    /\ Len(ch[p]) = 4

EndsWithDot(field) == field # <<>> /\ field[Len(field)] = "."

IsInteger(field) == ParseInt(field).ok

IntegerOf(field) == Float(ParseInt(field).val)

\* The three checks of an SOA value; the fields count from 1 here.
C9_SoaShape(soaFields) ==
  /\ Len(soaFields) = 7
  /\ EndsWithDot(soaFields[1])
  /\ EndsWithDot(soaFields[2])
  /\ \A i \in 3..7 : IsInteger(soaFields[i])

\* C9: in the zone-timers phase a DATA record with a non-empty zone produces
\* observations iff its value splits on whitespace into exactly 7 fields,
\* fields 0 and 1 end with '.', and fields 2 to 6 parse as integers; it then
\* produces exactly six: the pairs refresh = field 3, retry = field 4 and
\* expiration = field 5, labelled by zone.  EXTRA records, DATA records with
\* an empty zone and records failing a check produce nothing.
C9_ZoneTimersPerRecord ==
  \A p \in Procs :
    HandledRecord(p, "zt_recv") =>
      LET data == ph[p].data
          soaFields == Fields(data.Data)
      IN  IF ph[p].dataType = "DATA" /\ data.Zone # <<>> /\ C9_SoaShape(soaFields)
            THEN Produced(p) =
                   PairOf(zoneRefreshDesc, IntegerOf(soaFields[4]), <<data.Zone>>)
                   \o PairOf(zoneRetryDesc, IntegerOf(soaFields[5]), <<data.Zone>>)
                   \o PairOf(zoneExpirationDesc, IntegerOf(soaFields[6]), <<data.Zone>>)
            ELSE Produced(p) = <<>>

\* An accepted SOA record has produced its six observations.
C9_Witness ==
  \E p \in Procs :
    /\ HandledRecord(p, "zt_recv")
    /\ ph[p].dataType = "DATA"
    /\ Len(Produced(p)) = 6

\* C10: the zone-timers phase calls receive at most 100000 times in one run
\* and then returns, though the transport never delivers BLOCK or END and
\* never fails: once it has received 100000 times its only step is to return
\* nil.
C10_ReceiveLimit ==
  /\ [](\A p \in Procs : calls[p].Receive <= 100000)
  /\ [][\A p \in Procs :
          (pc[p] = "zt_recv" /\ calls[p].Receive >= 100000) =>
            /\ calls'[p].Receive = calls[p].Receive
            /\ pc'[p] = "returned"
            /\ ph'[p].err = <<>>]_vars

\* The phase has returned nil after 100000 receives, none of which was a
\* terminator, and has sent what the acceptable records among them gave.
C10_Witness ==
  \E p \in Procs :
    /\ pc[p] = "returned"
    /\ ph[p].err = <<>>
    /\ calls[p].Receive = 100000
    /\ Len(ch[p]) = 6 * MaxSoaRecords

(***************************************************************************)
(* Collect                                                                 *)
(***************************************************************************)

\* Version, BuildTime, GitCommit, GoVersion, c.libknotVersion, platform
BuildInfoLabelValues ==
  << <<"d", "e", "v">>, <<"u", "n", "k", "n", "o", "w", "n">>,
     <<"u", "n", "k", "n", "o", "w", "n">>, <<"g", "o">>, <<"3", ".", "4">>,
     <<"o", "s", "/", "a", "r", "c", "h">> >>

\* prometheus.MustNewConstMetric(buildInfoDesc, prometheus.GaugeValue, 1.0, ...)
BuildInfoMetric == Metric(buildInfoDesc, "gauge", Float(1), BuildInfoLabelValues)

\* What memoryUsage() may return, in the order the range loop visits it:
\* no knotd process, or one with its resident size.
MemUsages == {<<>>, << [pid |-> <<"4", "2">>, usage |-> 2048] >>}

\* for pid, usage := range memUsage { sendMetrics(ch, memoryUsageDesc, ...) }
RECURSIVE MemMetrics(_)
MemMetrics(memUsage) ==
  IF memUsage = <<>>
    THEN <<>>
    ELSE sendMetrics(memoryUsageDesc, Float(Head(memUsage).usage), <<Head(memUsage).pid>>)
           \o MemMetrics(Tail(memUsage))

\* A Close that leaves the session as it is
CloseCtlNoop(ctl) == ctl

\* A Close that closes and frees the handle whenever it is called
CloseCtlUnguarded(ctl) ==
  [ctl EXCEPT !.connected = FALSE, !.closed = @ + 1, !.freed = @ + 1]

\* ctl.Close(): if k.ctl != nil { knot_ctl_close; knot_ctl_free; k.ctl = nil }
CloseCtl(ctl) ==
  IF ctl.ctl
    THEN [ctl EXCEPT !.ctl = FALSE, !.connected = FALSE, !.closed = @ + 1,
                     !.freed = @ + 1]
    ELSE [ctl EXCEPT !.closed = @ + 1]

\* The deferred ctl.Close() calls run, last deferred first.
RECURSIVE RunDefers(_, _)
RunDefers(objects, defers) ==
  IF defers = <<>>
    THEN objects
    ELSE RunDefers([objects EXCEPT ![defers[Len(defers)]] = CloseCtl(@)],
                   SubSeq(defers, 1, Len(defers) - 1))

\* A Lock that does not wait
MutexFreeAlways(m) == TRUE

\* c.mu is free
MutexFree(m) == m = 0

\* The goroutine calls Collect and reaches c.mu.Lock().
CollectCall(p) ==
  /\ pc[p] = "idle"
  /\ pc' = [pc EXCEPT ![p] = "c_lock"]
  /\ UNCHANGED <<regVars, getVars, callerVars>>

\* Records the server has for one command of a pass (zone status: the
\* header of a zone and that many of its fields).
MaxPassRecords == 1

\* The stream a command of a pass is answered with.
PassRecordsLeft(stage) == IF stage = 2 THEN MaxPassRecords + 1 ELSE MaxPassRecords

\* c.mu.Lock() returns; defer c.mu.Unlock()
CollectLock(p) ==
  /\ pc[p] = "c_lock"
  /\ MutexFree(mu)
  /\ mu' = p
  /\ pass' = [pass EXCEPT ![p] = [NoPass EXCEPT !.stage = 1]]
  /\ pc' = [pc EXCEPT ![p] = "c_buildinfo"]
  /\ UNCHANGED <<regVars, getVars, cfgVars, ch, ph, phret, ctls, calls, result,
                 streamLeft>>

\* A Collect that sends no build info
CollectBuildInfoSkipped(p) ==
  /\ pc[p] = "c_buildinfo"
  /\ pc' = [pc EXCEPT ![p] = "c_new"]
  /\ UNCHANGED <<regVars, getVars, cfgVars, mu, ch, ph, phret, pass, ctls, calls, result,
                 streamLeft>>

\* ch <- prometheus.MustNewConstMetric(buildInfoDesc, ...)
CollectBuildInfo(p) ==
  /\ pc[p] = "c_buildinfo"
  /\ Send(p, <<BuildInfoMetric>>)
  /\ pc' = [pc EXCEPT ![p] = "c_new"]
  /\ UNCHANGED <<regVars, getVars, cfgVars, mu, ph, phret, pass, ctls, calls, result,
                 streamLeft>>

\* ctl := libknot.New(); if ctl == nil { return }; defer ctl.Close()
CollectNew(p, allocated) ==
  /\ pc[p] = "c_new"
  /\ calls' = [calls EXCEPT ![p].New = @ + 1]
  /\ IF allocated
       THEN /\ ctls' = [ctls EXCEPT ![p] = Append(@, NewCtl)]
            /\ pass' = [pass EXCEPT ![p].ctl = Len(ctls[p]) + 1,
                                    ![p].defers = Append(@, Len(ctls[p]) + 1)]
            /\ pc' = [pc EXCEPT ![p] = "c_connect"]
       ELSE /\ pass' = [pass EXCEPT ![p].ctl = 0]
            /\ pc' = [pc EXCEPT ![p] = "c_return"]
            /\ UNCHANGED ctls
  /\ UNCHANGED <<regVars, getVars, cfgVars, mu, ch, ph, phret, result, streamLeft>>

\* A connect error that goes unnoticed
OpenFailedIgnored(err) == FALSE

\* err := ctl.Connect(c.sockPath); if err != nil
OpenFailed(err) == err # NoErr

\* err := ctl.Connect(c.sockPath); if err != nil { return };
\* ctl.SetTimeout(c.timeout)
CollectConnect(p, err) ==
  /\ pc[p] = "c_connect"
  /\ IF ~OpenFailed(err)
       THEN /\ calls' = [calls EXCEPT ![p].Connect = @ + 1, ![p].SetTimeout = @ + 1]
            /\ ctls' = [ctls EXCEPT ![p][pass[p].ctl].connected = TRUE]
            /\ pc' = [pc EXCEPT ![p] = IF pass[p].stage = 1 THEN "c_mem" ELSE "c_phase"]
       ELSE /\ calls' = [calls EXCEPT ![p].Connect = @ + 1]
            /\ pc' = [pc EXCEPT ![p] = "c_return"]
            /\ UNCHANGED ctls
  /\ UNCHANGED <<regVars, getVars, cfgVars, mu, ch, ph, phret, pass, result, streamLeft>>

\* if c.collectMemInfo { memUsage := memoryUsage(); for ... { sendMetrics } }
CollectMemInfo(p, memUsage) ==
  /\ pc[p] = "c_mem"
  /\ IF c.collectMemInfo THEN Send(p, MemMetrics(memUsage)) ELSE UNCHANGED ch
  /\ pc' = [pc EXCEPT ![p] = "c_phase"]
  /\ UNCHANGED <<regVars, getVars, cfgVars, mu, ph, phret, pass, ctls, calls, result,
                 streamLeft>>

\* Every phase runs, whatever the flags
StageEnabledAlways(cfg, stage) == TRUE

\* The condition under which the phase of a stage runs.
StageEnabled(cfg, stage) ==
  CASE stage = 1 -> cfg.collectStats
    [] stage = 2 -> cfg.collectZoneStatus \/ cfg.collectZoneSerial
    [] stage = 3 -> cfg.collectZoneStats
    [] stage = 4 -> cfg.collectZoneTimers

\* Where the phase function of a stage begins.
StagePc(stage) ==
  CASE stage = 1 -> "gs_send"
    [] stage = 2 -> "zs_send"
    [] stage = 3 -> "zst_send"
    [] stage = 4 -> "zt_send"

\* if <flags> { if err := c.collectX(ctl, ch); err != nil { log.Printf } }:
\* the call, when the flags ask for it.  (ph keeps the error the phase before
\* returned, which was logged, until a phase starts or is passed over.)
CollectPhase(p) ==
  /\ pc[p] = "c_phase"
  /\ IF StageEnabled(c, pass[p].stage)
       THEN /\ pc' = [pc EXCEPT ![p] = StagePc(pass[p].stage)]
            /\ phret' = [phret EXCEPT ![p] = "c_after"]
            /\ streamLeft' = [streamLeft EXCEPT ![p] = PassRecordsLeft(pass[p].stage)]
            /\ UNCHANGED ph
       ELSE /\ pc' = [pc EXCEPT ![p] = "c_after"]
            /\ ph' = [ph EXCEPT ![p] = NoPhase]
            /\ UNCHANGED <<phret, streamLeft>>
  /\ UNCHANGED <<regVars, getVars, cfgVars, mu, ch, pass, ctls, calls, result>>

\* The stage that follows: 2 after 1 always; then 3 if collectZoneStats, 4 if
\* collectZoneTimers; 0 when the function has come to its end.
NextStage(cfg, stage) ==
  IF stage = 1 THEN 2
  ELSE IF stage = 2 /\ cfg.collectZoneStats THEN 3
  ELSE IF stage \in {2, 3} /\ cfg.collectZoneTimers THEN 4
  ELSE 0

\* A pass that gives up once a phase has returned an error
StageAfterFailureStops(cfg, stage, err) ==
  IF err # NoErr THEN 0 ELSE NextStage(cfg, stage)

\* if err := c.collectX(ctl, ch); err != nil { log.Printf(...) }: the error is
\* logged and the function goes on as it does after a phase without one.
StageAfter(cfg, stage, err) == NextStage(cfg, stage)

\* The phase is back (its error is logged, its locals are gone, and so is
\* the count of its sends and receives); then "ctl.Close()" before the next
\* "ctl = libknot.New()", or the end of Collect.
CollectAfter(p) ==
  /\ pc[p] = "c_after"
  /\ getItem' = [getItem EXCEPT ![p] = <<>>]
  /\ getFound' = [getFound EXCEPT ![p] = FALSE]
  /\ getRet' = [getRet EXCEPT ![p] = NoDesc]
  /\ streamLeft' = [streamLeft EXCEPT ![p] = 0]
  /\ IF StageAfter(c, pass[p].stage, ph[p].err) # 0
       THEN /\ calls' = [calls EXCEPT ![p].Close = @ + 1, ![p].Send = 0,
                                      ![p].Receive = 0]
            /\ ctls' = [ctls EXCEPT ![p][pass[p].ctl] = CloseCtl(@)]
            /\ pass' = [pass EXCEPT ![p].stage = StageAfter(c, pass[p].stage, ph[p].err)]
            /\ pc' = [pc EXCEPT ![p] = "c_new"]
       ELSE /\ calls' = [calls EXCEPT ![p].Send = 0, ![p].Receive = 0]
            /\ pc' = [pc EXCEPT ![p] = "c_return"]
            /\ UNCHANGED <<ctls, pass>>
  /\ UNCHANGED <<regVars, retpc, getReg, cfgVars, mu, ch, ph, phret, result>>

\* return: the deferred Close calls run, and Unlock is still to run.
CollectReturn(p) ==
  /\ pc[p] = "c_return"
  /\ calls' = [calls EXCEPT ![p].Close = @ + Len(pass[p].defers)]
  /\ ctls' = [ctls EXCEPT ![p] = RunDefers(@, pass[p].defers)]
  /\ pass' = [pass EXCEPT ![p].defers = <<>>]
  /\ result' = [result EXCEPT ![p] = "returned"]
  /\ pc' = [pc EXCEPT ![p] = "c_unlock"]
  /\ UNCHANGED <<regVars, getVars, cfgVars, mu, ch, ph, phret, streamLeft>>

\* The deferred c.mu.Unlock() runs and Collect is over: its frame is gone and
\* the caller has taken what the channel carried.
CollectUnlock(p) ==
  /\ pc[p] = "c_unlock"
  /\ mu' = 0
  /\ pc' = [pc EXCEPT ![p] = "idle"]
  /\ ch' = [ch EXCEPT ![p] = <<>>]
  /\ ph' = [ph EXCEPT ![p] = NoPhase]
  /\ phret' = [phret EXCEPT ![p] = "idle"]
  /\ pass' = [pass EXCEPT ![p] = NoPass]
  /\ ctls' = [ctls EXCEPT ![p] = <<>>]
  /\ calls' = [calls EXCEPT ![p] = NoCalls]
  /\ result' = [result EXCEPT ![p] = "none"]
  /\ streamLeft' = [streamLeft EXCEPT ![p] = 0]
  /\ retpc' = [retpc EXCEPT ![p] = "idle"]
  /\ getReg' = [getReg EXCEPT ![p] = "global"]
  /\ getItem' = [getItem EXCEPT ![p] = <<>>]
  /\ getFound' = [getFound EXCEPT ![p] = FALSE]
  /\ getRet' = [getRet EXCEPT ![p] = NoDesc]
  /\ UNCHANGED <<regVars, cfgVars>>

(***************************************************************************)
(* Spec: goroutines that call Collect on one collector, concurrently, as   *)
(* the scrapes of a registry do; every flag combination, every outcome of  *)
(* the transport, which is the libknot.Ctl that Collect allocates itself.  *)
(***************************************************************************)

\* The statistic the server of the passes reports.
PassItem == CHOOSE item \in ItemNames : item[1] = "r"

\* The records the server of the passes has for each command.
PassRecordsFor(p) ==
  CASE pc[p] = "gs_recv" ->
         {r \in GlobalRecords :
            /\ r.dataType = "DATA" /\ r.data.ID = IdUdp
            /\ r.data.Item = PassItem /\ r.data.Data = <<"1", ".", "5">>}
    [] pc[p] = "zs_recv" ->
         {r \in StatusRecords :
            \/ /\ ph[p].currentZone = Empty
               /\ r.dataType = "DATA" /\ r.data.Zone = ZoneCom
            \/ /\ ph[p].currentZone # Empty
               /\ r.dataType = "EXTRA" /\ r.data.Data = <<"7">>}
    [] pc[p] = "zst_recv" ->
         {r \in ZoneStatsRecords :
            /\ r.dataType = "DATA" /\ r.data.ID = Empty /\ r.data.Zone = ZoneCom
            /\ r.data.Item = PassItem /\ r.data.Data = <<"1", ".", "5">>}
    [] pc[p] = "zt_recv" ->
         {r \in TimerRecords :
            /\ r.dataType = "DATA" /\ r.data.Zone = ZoneCom
            /\ r.data.Data = SoaValid}
    [] OTHER -> {}

\* BLOCK and END without a payload
LibknotTerminatorsNil == {Response(t, NilData) : t \in {"BLOCK", "END"}}

\* BLOCK and END as libknot's ReceiveResponse hands them back: with a payload
\* whenever it returns no error.
LibknotTerminators == {Response(t, EmptyData) : t \in {"BLOCK", "END"}}

\* What ReceiveResponse of the libknot.Ctl that Collect allocates may hand
\* back now.
PassStream(p) ==
  LibknotTerminators \cup {ReceiveFailure}
    \cup (IF streamLeft[p] > 0 THEN PassRecordsFor(p) ELSE {})

Init ==
  /\ DebugMode \in BOOLEAN
  /\ c \in Collectors
  /\ InitRegistries
  /\ InitGoroutines
  /\ InitUtils

PassSend(p) ==
  \E err \in SendOutcomes :
    GsSend(p, err) \/ ZsSend(p, err) \/ ZstSend(p, err) \/ ZtSend(p, err)

PassRecv(p) ==
  \E r \in PassStream(p) :
    /\ GsRecv(p, r) \/ ZsRecv(p, r) \/ ZstRecv(p, r) \/ ZtRecv(p, r)
    /\ Deliver(p, r)

Collect(p) ==
  \/ CollectCall(p)
  \/ CollectLock(p)
  \/ CollectBuildInfo(p)
  \/ \E allocated \in BOOLEAN : CollectNew(p, allocated)
  \/ \E err \in {NoErr, ErrConnect} : CollectConnect(p, err)
  \/ \E memUsage \in MemUsages : CollectMemInfo(p, memUsage)
  \/ CollectPhase(p)
  \/ PassSend(p)
  \/ PassRecv(p)
  \/ getStatsDescriptor(p)
  \/ PhaseEmit(p)
  \/ CollectAfter(p)
  \/ CollectReturn(p)
  \/ CollectUnlock(p)

Next == \E p \in Procs : Collect(p)

Spec == Init /\ [][Next]_vars

(***************************************************************************)
(* Collect: the identity observation and the collection mutex              *)
(***************************************************************************)

\* p is between c.mu.Lock() and the deferred c.mu.Unlock().
InPass(p) == pc[p] \notin {"idle", "c_lock"}

\* p has gone past the statement that sends the build info.
PastBuildInfo(p) == pc[p] \notin {"idle", "c_lock", "c_buildinfo"}

\* C1: every Collect pass emits the knot_build_info observation exactly once,
\* and before any transport call, for every combination of the six flags and
\* every transport outcome: until it is sent no libknot call has been made,
\* and from then on it is the first observation of the pass and the only one
\* on its descriptor.
C1_BuildInfoOnceAndFirst ==
  \A p \in Procs :
    /\ ~PastBuildInfo(p) => calls[p] = NoCalls /\ ctls[p] = <<>> /\ ch[p] = <<>>
    /\ PastBuildInfo(p) =>
         /\ Len(ch[p]) >= 1
         /\ ch[p][1] = BuildInfoMetric
         /\ \A i \in 2..Len(ch[p]) : ch[p][i].desc # buildInfoDesc

\* A pass is over in which an allocation after the first failed: sessions
\* were used and observations followed the build info.
C1_Witness ==
  \E p \in Procs :
    /\ pc[p] = "c_unlock"
    /\ result[p] = "returned"
    /\ calls[p].New > Len(ctls[p])
    /\ Len(ctls[p]) >= 1
    /\ Len(ch[p]) >= 3

\* C2: at most one Collect pass is between acquiring and releasing the
\* collection mutex at any time, so the transport operations and the
\* observations of two passes never interleave, and a later pass takes its
\* first step only after the earlier one has returned.
C2_OnePassAtATime ==
  \A p, q \in Procs :
    InPass(p) /\ InPass(q) => p = q /\ mu = p

\* One goroutine waits at Lock while another is receiving in a phase.
C2_Witness ==
  \E p, q \in Procs :
    /\ p # q
    /\ pc[q] = "c_lock"
    /\ pc[p] \in {"gs_recv", "zs_recv", "zst_recv", "zt_recv"}
    /\ calls[p].Receive >= 1
    /\ Len(ch[p]) >= 3

(***************************************************************************)
(* The phases: errors of the transport and records that do not parse       *)
(***************************************************************************)

\* The step of p is the send of its phase's command, which returned err.
SendStep(p, err) == GsSend(p, err) \/ ZsSend(p, err) \/ ZstSend(p, err) \/ ZtSend(p, err)

\* The step of p is a receive of its phase, which handed back r.
RecvStep(p, r) == GsRecv(p, r) \/ ZsRecv(p, r) \/ ZstRecv(p, r) \/ ZtRecv(p, r)

C18_Malformed(p, r) ==
  CASE pc[p] = "gs_recv" ->
         r.data.Item # <<>> /\ r.data.Data # <<>> /\ ~IsNumber(r.data.Data)
    [] pc[p] = "zst_recv" ->
         /\ r.data.Zone # <<>> /\ r.data.Item # <<>> /\ r.data.Data # <<>>
         /\ ~IsNumber(r.data.Data)
    [] pc[p] = "zs_recv" ->
         /\ r.dataType = "EXTRA" /\ ph[p].currentZone # <<>>
         /\ \/ ph[p].responseIndex + 1 = 1 /\ ~IsNumber(r.data.Data)
            \/ /\ ph[p].responseIndex + 1 \in {7, 9}
               /\ r.data.Data \notin {<<>>, <<"-">>}
               /\ ~convertStateTime(r.data.Data).present
    [] pc[p] = "zt_recv" ->
         r.dataType = "DATA" /\ r.data.Zone # <<>> /\ ~C9_SoaShape(Fields(r.data.Data))
    [] OTHER -> FALSE

\* C18: a record that fails parsing or shape validation (a value that is no
\* number, a malformed duration, an SOA value with the wrong number of fields,
\* without a trailing '.' or with a field that is no integer) never ends a
\* phase: it gives no observation and no error, and the phase is back at its
\* receive, where the records that follow are handled as any record is.
C18_BadRecordSkipped ==
  [][\A p \in Procs : \A r \in RecordsFor(p) :
       (C18_Malformed(p, r) /\ RecvStep(p, r)) =>
         /\ pc'[p] = pc[p]
         /\ ph'[p].err = <<>>
         /\ ch'[p] = ch[p]
         /\ calls'[p].Receive = calls[p].Receive + 1]_vars

\* In collectGlobalStats two records with item and value have been received:
\* the first gave nothing, its value being no number, and the second, after
\* it, gave its two observations.
C18_Witness ==
  \E p \in Procs :
    /\ pc[p] = "gs_recv"
    /\ ph[p].dataType \in {"DATA", "EXTRA"}
    /\ ph[p].responseCount = 2
    /\ ph[p].count = 2
    /\ ph[p].mark = 0
    /\ Len(ch[p]) = 2
    /\ ph[p].err = <<>>

(***************************************************************************)
(* Collect: failures of the transport within a pass                        *)
(***************************************************************************)

\* s is the beginning of t.
IsPrefix(s, t) == Len(s) <= Len(t) /\ SubSeq(t, 1, Len(s)) = s

\* The commands sent on the control objects of a pass, in the order sent.
RECURSIVE CommandsSent(_)
CommandsSent(objects) ==
  IF objects = <<>> THEN <<>> ELSE Head(objects).sent \o CommandsSent(Tail(objects))

\* The four commands in the order of the phases.
CommandOrder == <<"stats", "zone-status", "zone-stats", "zone-read SOA">>

\* The flags that ask for a command.
CommandWanted(cfg, cmd) ==
  CASE cmd = "stats" -> cfg.collectStats
    [] cmd = "zone-status" -> cfg.collectZoneStatus \/ cfg.collectZoneSerial
    [] cmd = "zone-stats" -> cfg.collectZoneStats
    [] cmd = "zone-read SOA" -> cfg.collectZoneTimers

\* The commands a pass with these flags sends when every session opens.
WantedCommands(cfg) == SelectSeq(CommandOrder, LAMBDA cmd : CommandWanted(cfg, cmd))

\* libknot.New() gave no control object to the pass of p.
AllocFailed(p) == calls[p].New > Len(ctls[p])

\* A Connect of the pass of p returned an error.
ConnectFailed(p) == calls[p].Connect > calls[p].SetTimeout

\* C12: for each of the four phases, if a receive call fails, the phase
\* returns the error at once, with no further receive and no further
\* observation; what the channel holds by then, from earlier records of the
\* phase and from earlier phases, stays in it to the end of the pass.
C12_ReceiveErrorEndsPhase ==
  [][\A p \in Procs :
       /\ RecvStep(p, ReceiveFailure) =>
            /\ pc'[p] = "c_after"
            /\ ph'[p].err = <<"receive failed">>
            /\ ch'[p] = ch[p]
            /\ calls'[p].Receive = calls[p].Receive + 1
       /\ pc[p] # "c_unlock" => IsPrefix(ch[p], ch'[p])]_vars

\* The zone-status phase is back with a receive error at its third receive:
\* the channel holds the build info, what the phases before gave and the
\* serial of the zone the phase had read.
C12_Witness ==
  \E p \in Procs :
    /\ pc[p] = "c_after"
    /\ pass[p].stage = 2
    /\ ph[p].err = <<"receive failed">>
    /\ calls[p].Receive = 3
    /\ Len(ch[p]) >= 5
    /\ ch[p][Len(ch[p])].desc = zoneSerialDesc[2]

\* C13: a send or receive error in one phase does not stop the pass: when the
\* failed phase is back, Collect closes that session and goes to open a new
\* one whenever a later phase may still run (always after the statistics
\* phase), the new session is a fresh object, every enabled command has been
\* sent by the end of a pass whose sessions all opened, and the pass ends by
\* returning, with no error to hand to its caller.
C13_PhaseErrorDoesNotStopPass ==
  /\ [](\A p \in Procs :
          /\ pc[p] = "c_connect" =>
               pass[p].ctl = Len(ctls[p]) /\ ctls[p][pass[p].ctl] = NewCtl
          /\ (pc[p] = "c_unlock" /\ ~AllocFailed(p) /\ ~ConnectFailed(p)) =>
               /\ CommandsSent(ctls[p]) = WantedCommands(c)
               /\ result[p] = "returned")
  /\ [][\A p \in Procs :
          (pc[p] = "c_after" /\ ph[p].err # <<>> /\ pc'[p] # "c_after") =>
            IF \/ pass[p].stage = 1
               \/ pass[p].stage = 2 /\ (c.collectZoneStats \/ c.collectZoneTimers)
               \/ pass[p].stage = 3 /\ c.collectZoneTimers
              THEN /\ pc'[p] = "c_new"
                   /\ pass'[p].stage > pass[p].stage
                   /\ ctls'[p][pass[p].ctl].closed = ctls[p][pass[p].ctl].closed + 1
                   /\ ~ctls'[p][pass[p].ctl].connected
              ELSE pc'[p] = "c_return"]_vars

\* The statistics phase returned an error; its session was closed, a second
\* one is connected, and the zone-status phase is about to send its command.
C13_Witness ==
  \E p \in Procs :
    /\ pc[p] = "zs_send"
    /\ ph[p].err # <<>>
    /\ Len(ctls[p]) = 2
    /\ ctls[p][1].closed >= 1
    /\ ctls[p][1].sent = <<"stats">>
    /\ ctls[p][2].connected

\* C14: if opening a session fails (libknot.New gives nothing or Connect
\* returns an error, at the start or at any reopen), Collect returns: no
\* command is sent from then on, the commands sent belong to the phases
\* before, the channel keeps exactly what it held, and when the first open
\* fails the channel holds the build info alone.
C14_OpenFailureEndsPass ==
  /\ [](\A p \in Procs :
          (AllocFailed(p) \/ ConnectFailed(p)) =>
            /\ pc[p] \in {"c_return", "c_unlock"}
            /\ \A i \in 1..Len(CommandsSent(ctls[p])) :
                 \E k \in 1..(pass[p].stage - 1) :
                   CommandsSent(ctls[p])[i] = CommandOrder[k]
            /\ pass[p].stage = 1 => ch[p] = <<BuildInfoMetric>>)
  /\ [][\A p \in Procs :
          /\ (CollectNew(p, FALSE) \/ CollectConnect(p, <<"connect failed">>)) =>
               /\ pc'[p] = "c_return"
               /\ ch'[p] = ch[p]
          /\ pc[p] = "c_return" =>
               /\ ch'[p] = ch[p]
               /\ CommandsSent(ctls'[p]) = CommandsSent(ctls[p])]_vars

\* A pass is over whose reopen before the zone-statistics phase failed at
\* Connect: the two commands before were sent, and what they gave is kept.
C14_Witness ==
  \E p \in Procs :
    /\ pc[p] = "c_unlock"
    /\ ConnectFailed(p)
    /\ pass[p].stage = 3
    /\ CommandsSent(ctls[p]) = <<"stats", "zone-status">>
    /\ Len(ch[p]) >= 5

\* C15: in any Collect pass at most one command is sent on any one session:
\* a command is sent on the newest control object, which is connected and has
\* carried no command, and every object before it has been closed.
C15_OneCommandPerSession ==
  \A p \in Procs :
    /\ \A i \in 1..Len(ctls[p]) :
         /\ Len(ctls[p][i].sent) <= 1
         /\ i < Len(ctls[p]) => ctls[p][i].closed >= 1 /\ ~ctls[p][i].connected
    /\ pc[p] \in {"gs_send", "zs_send", "zst_send", "zt_send"} =>
         /\ pass[p].ctl = Len(ctls[p])
         /\ ctls[p][pass[p].ctl].sent = <<>>
         /\ ctls[p][pass[p].ctl].connected
         /\ ctls[p][pass[p].ctl].closed = 0

\* The zone-timers phase is receiving on the fourth session of its pass; each
\* of the four has carried one command and the first three are closed.
C15_Witness ==
  \E p \in Procs :
    /\ pc[p] = "zt_recv"
    /\ Len(ctls[p]) = 4
    /\ \A i \in 1..4 : ctls[p][i].sent = <<CommandOrder[i]>>
    /\ \A i \in 1..3 : ctls[p][i].closed = 1
    /\ ctls[p][4].connected

\* C16: in any Collect pass the commands are sent in the order stats,
\* zone-status, zone-stats, zone-read SOA, each at most once (so no phase is
\* tried again, failed or not), and a command is sent only if its flag is
\* set, zone-status when collectZoneStatus or collectZoneSerial is.
C16_CommandOrder ==
  \A p \in Procs :
    \E picked \in SUBSET (1..4) :
      /\ \A k \in picked : CommandWanted(c, CommandOrder[k])
      /\ CommandsSent(ctls[p]) = SelectSeq(CommandOrder, LAMBDA cmd :
                                   \E k \in picked : CommandOrder[k] = cmd)

\* A pass with the serial flag alone of the two zone-status flags, and
\* without statistics, is over: it sent zone-status, which gave nothing, and
\* then zone-read SOA.
C16_Witness ==
  \E p \in Procs :
    /\ pc[p] = "c_unlock"
    /\ ~c.collectStats /\ ~c.collectZoneStatus /\ c.collectZoneSerial
    /\ ~c.collectZoneStats
    /\ CommandsSent(ctls[p]) = <<"zone-status", "zone-read SOA">>
    /\ Len(ch[p]) = 1

\* C17: a Collect pass always returns normally: no step of it panics, and
\* when it is over it has returned, with nothing handed to its caller, for
\* every flag combination and every failure of the transport (no control
\* object, connect error, send error, receive error at any receive of any
\* phase).
C17_CollectAlwaysReturns ==
  \A p \in Procs :
    /\ pc[p] \notin {"unwind", "panicked"}
    /\ result[p] \in {"none", "returned"}
    /\ pc[p] = "c_unlock" => result[p] = "returned"
    /\ pc[p] = "idle" => mu # p

\* With debug logging on, a pass whose fourth phase failed at a receive has
\* returned.
C17_Witness ==
  \E p \in Procs :
    /\ DebugMode
    /\ pc[p] = "c_unlock"
    /\ result[p] = "returned"
    /\ Len(ctls[p]) = 4
    /\ ph[p].err = <<"receive failed">>
    /\ calls[p].Close = 7

(***************************************************************************)
(* SpecDuration: ParseDurationString called on its own with one string,    *)
(* as the tests of pkg/utils do.                                           *)
(***************************************************************************)

\* The digits the strings of the calls are written with.
DurationDigits == {"0", "3"}

\* Digits in one group of a string.
MaxDurationDigits == 2

\* The digit runs of a group.
DigitRuns == UNION {[1..n -> DurationDigits] : n \in 1..MaxDurationDigits}

\* A group <digits><unit>, or none.
GroupOf(unit) == {<<>>} \cup {run \o <<unit>> : run \in DigitRuns}

\* The strings of TestParseDurationString that are durations.
DurationExamples ==
  { <<"+", "1", "h", "3", "0", "m">>,
    <<"-", "1", "D", "1", "2", "h">>,
    <<"+", "2", "D", "5", "h", "1", "0", "m", "2", "0", "s">>,
    <<"+", "9", "0", "s">> }

\* A sign and then the optional groups D, h, m, s in that order.
WellFormedDurations ==
  {<<sign>> \o gD \o gh \o gm \o gs :
     sign \in {"+", "-"}, gD \in GroupOf("D"), gh \in GroupOf("h"),
     gm \in GroupOf("m"), gs \in GroupOf("s")}
    \cup DurationExamples

\* Strings that are no durations: no sign, digits without a unit, a unit that
\* is none, groups out of order, a unit without digits, a group twice, text
\* after the groups.
OtherDurationInputs ==
  { <<>>,
    <<"1", "h", "3", "0", "m">>,
    <<"+", "1", "2", "3">>,
    <<"+", "1", "x", "3", "0", "y">>,
    <<"+", "3", "m", "3", "h">>,
    <<"+", "h">>,
    <<"+", "3", "s", "3", "s">>,
    <<"+", "3", "s", " ">>,
    <<"+", "+", "3", "s">>,
    <<"+", "1", "h", " ", "i", "n", "v", "a", "l", "i", "d">>,
    <<"+", "3", "h", "\n">>,
    <<"+", "3", "h", "3", "D">>,
    <<"+", "3", "H">> }

\* The characters of the short strings: signs, a digit, units, a letter that
\* is no unit, a space.
DurationAlphabet == {"+", "-", "3", "D", "h", "s", "x", " "}

\* Characters in a short string.
MaxDurationLen == 3

\* Every string of up to MaxDurationLen characters of the alphabet.
ShortDurationInputs == UNION {[1..n -> DurationAlphabet] : n \in 0..MaxDurationLen}

DurationInputs == WellFormedDurations \cup OtherDurationInputs \cup ShortDurationInputs

InitDuration ==
  /\ DebugMode = FALSE
  /\ c = AllEnabled
  /\ InitRegistries
  /\ InitGoroutines
  /\ utilArg \in DurationInputs
  /\ utilRet = NotCalled

\* seconds, ok := utils.ParseDurationString(durationStr)
ParseDurationCall ==
  /\ ~utilRet.called
  /\ utilRet' = Called(ParseDurationString(utilArg))
  /\ UNCHANGED <<regVars, getVars, DebugMode, c, utilArg, mu, ch, ph, phret, pass,
                 ctls, calls, result, streamLeft, pc>>

NextDuration == ParseDurationCall

SpecDuration == InitDuration /\ [][NextDuration]_vars

\* C19: ParseDurationString returns ok = false for a string that consists of
\* the sign only, "+" or "-".
C19_SignOnlyNotValid ==
  (utilRet.called /\ utilArg \in {<<"+">>, <<"-">>}) => ~utilRet.ok

\* The digits of s that stand before the unit letter, none when s has no
\* such letter.
C20_DigitsBefore(s, unit) ==
  IF \E i \in 1..Len(s) : s[i] = unit
    THEN LET i == CHOOSE i \in 1..Len(s) : s[i] = unit
             j == CHOOSE j \in 2..i :
                    /\ \A k \in j..(i - 1) : s[k] \in Digits
                    /\ s[j - 1] \notin Digits
         IN  SubSeq(s, j, i - 1)
    ELSE <<>>

\* D*86400 + h*3600 + m*60 + s of the groups of s, negated for the sign '-'.
C20_Seconds(s) ==
  (IF s[1] = "-" THEN -1 ELSE 1)
    * (DigitsVal(C20_DigitsBefore(s, "D")) * 86400
         + DigitsVal(C20_DigitsBefore(s, "h")) * 3600
         + DigitsVal(C20_DigitsBefore(s, "m")) * 60
         + DigitsVal(C20_DigitsBefore(s, "s")))

C21_Rank(unit) ==
  CASE unit = "D" -> 1 [] unit = "h" -> 2 [] unit = "m" -> 3 [] unit = "s" -> 4

\* s is a sign followed by groups <digits><unit>, in the order D, h, m, s,
\* none twice, and nothing else: after the sign there are only digits and
\* unit letters, every unit letter stands right after a digit, the letters
\* come in rising order, and the string does not end in a digit.
C21_InGrammar(s) ==
  /\ Len(s) >= 1
  /\ s[1] \in {"+", "-"}
  /\ \A i \in 2..Len(s) : s[i] \in Digits \cup {"D", "h", "m", "s"}
  /\ s[Len(s)] \notin Digits
  /\ \A i \in 2..Len(s) :
       s[i] \in {"D", "h", "m", "s"} =>
         /\ i > 2 /\ s[i - 1] \in Digits
         /\ \A j \in (i + 1)..Len(s) :
              s[j] \in {"D", "h", "m", "s"} => C21_Rank(s[i]) < C21_Rank(s[j])

\* C21: ParseDurationString returns ok = false for every string that is not
\* a sign followed by groups of the grammar: no leading sign, digits without
\* a unit, another unit than D, h, m, s, a group twice, groups out of order,
\* any character that does not belong; the empty string and a duration
\* followed by other text are among them.
C21_NotADurationRejected ==
  (utilRet.called /\ ~C21_InGrammar(utilArg)) => ~utilRet.ok /\ utilRet.val = Float(0)

\* "+1h invalid", a duration followed by other text, has been rejected.
C21_Witness ==
  /\ utilRet.called
  /\ utilArg = <<"+", "1", "h", " ", "i", "n", "v", "a", "l", "i", "d">>
  /\ ~utilRet.ok

(***************************************************************************)
(* SpecStateTime: convertStateTime called on its own with one string, as   *)
(* TestKnotCollector_ConvertStateTime does.                                *)
(***************************************************************************)

\* The state words, with text after them, cut short, in capitals; the two
\* strings for "no timer" and strings close to them; a word that is nothing.
StateWordInputs ==
  { <<"p", "e", "n", "d", "i", "n", "g">>,
    <<"r", "u", "n", "n", "i", "n", "g">>,
    <<"f", "r", "o", "z", "e", "n">>,
    <<"p", "e", "n", "d", "i", "n", "g", " ", "+", "3", "s">>,
    <<"f", "r", "o", "z", "e", "n", "x">>,
    <<"r", "u", "n", "n", "i", "n">>,
    <<"P", "e", "n", "d", "i", "n", "g">>,
    <<" ", "p", "e", "n", "d", "i", "n", "g">>,
    NotScheduled,
    NotScheduled \o <<" ">>,
    <<"n", "o", "t">>,
    Dash,
    <<"i", "n", "v", "a", "l", "i", "d">> }

StateTimeInputs == StateWordInputs \cup DurationInputs

InitStateTime ==
  /\ DebugMode = FALSE
  /\ c = AllEnabled
  /\ InitRegistries
  /\ InitGoroutines
  /\ utilArg \in StateTimeInputs
  /\ utilRet = NotCalled

\* result := collector.convertStateTime(timeStr); ok stands for result != nil
ConvertStateTimeCall ==
  /\ ~utilRet.called
  /\ utilRet' = [called |-> TRUE,
                 ok |-> convertStateTime(utilArg).present,
                 val |-> convertStateTime(utilArg).val]
  /\ UNCHANGED <<regVars, getVars, DebugMode, c, utilArg, mu, ch, ph, phret, pass,
                 ctls, calls, result, streamLeft, pc>>

NextStateTime == ConvertStateTimeCall

SpecStateTime == InitStateTime /\ [][NextStateTime]_vars

\* s begins with the characters of w.
C22_StartsWith(s, w) == Len(s) >= Len(w) /\ \A i \in 1..Len(w) : s[i] = w[i]

\* s begins with one of the three state words.
C22_StateWord(s) ==
  \E w \in { <<"p", "e", "n", "d", "i", "n", "g">>, <<"r", "u", "n", "n", "i", "n", "g">>,
             <<"f", "r", "o", "z", "e", "n">> } : C22_StartsWith(s, w)

\* s is one of the two strings that stand for no timer.
C22_NoTimer(s) ==
  s \in { <<"n", "o", "t", " ", "s", "c", "h", "e", "d", "u", "l", "e", "d">>, <<"-">> }

\* s is a duration of the grammar: a sign and at least one group.
C22_Duration(s) == C21_InGrammar(s) /\ Len(s) > 1

\* C22: convertStateTime returns 0 for every string that starts with
\* "pending", "running" or "frozen", absent for exactly "not scheduled" and
\* "-", the seconds ParseDurationString gives for a duration of the grammar,
\* and absent for every other string.
C22_ConvertStateTime ==
  utilRet.called =>
    IF C22_StateWord(utilArg)
      THEN utilRet.ok /\ utilRet.val = Float(0)
    ELSE IF C22_NoTimer(utilArg)
      THEN ~utilRet.ok
    ELSE IF C22_Duration(utilArg)
      THEN utilRet.ok /\ utilRet.val = ParseDurationString(utilArg).val
    ELSE ~utilRet.ok

(***************************************************************************)
(* Observations and their descriptors                                      *)
(***************************************************************************)

\* g and k are what one sendMetrics call sends: a gauge on the first
\* descriptor of a pair and a counter on the second, whose name is the name
\* of the first with _total, with one value and one list of label values.
C23_Pair(g, k) ==
  /\ g.valueType = "gauge"
  /\ k.valueType = "counter"
  /\ k.desc.fqName = g.desc.fqName \o <<"_", "t", "o", "t", "a", "l">>
  /\ k.desc.variableLabels = g.desc.variableLabels
  /\ g.desc.addr[1] = k.desc.addr[1] /\ g.desc.addr[2] = 0 /\ k.desc.addr[2] = 1
  /\ k.value = g.value
  /\ k.labelValues = g.labelValues

\* C23: sendMetrics pushes exactly two observations per call, first a gauge
\* on the base descriptor and then a counter on the _total descriptor, both
\* with the same value and the same label values in the same order: whatever
\* a step of a phase adds to the channel is a run of such twos.
C23_SendMetricsPair ==
  [][\A p \in Procs :
       ch'[p] # ch[p] =>
         /\ IsPrefix(ch[p], ch'[p])
         /\ (Len(ch'[p]) - Len(ch[p])) % 2 = 0
         /\ \A k \in 1..((Len(ch'[p]) - Len(ch[p])) \div 2) :
              C23_Pair(ch'[p][Len(ch[p]) + 2 * k - 1], ch'[p][Len(ch[p]) + 2 * k])]_vars

\* One call has sent its two observations, with two label values, the
\* second of which is not empty.
C23_Witness ==
  \E p \in Procs :
    /\ Len(ch[p]) = 2
    /\ C23_Pair(ch[p][1], ch[p][2])
    /\ Len(ch[p][1].labelValues) = 2
    /\ ch[p][1].labelValues[2] # <<>>
    /\ ch[p][1].value # Float(0)

\* The observation at index i of ms has its other variant in ms.
C24_HasOtherVariant(ms, i) ==
  \E j \in 1..Len(ms) : C23_Pair(ms[i], ms[j]) \/ C23_Pair(ms[j], ms[i])

C27_LowerOf(char) ==
  LET upper == <<"A", "B", "C", "D", "E", "F", "G", "H", "I", "J", "K", "L", "M",
                 "N", "O", "P", "Q", "R", "S", "T", "U", "V", "W", "X", "Y", "Z">>
      lower == <<"a", "b", "c", "d", "e", "f", "g", "h", "i", "j", "k", "l", "m",
                 "n", "o", "p", "q", "r", "s", "t", "u", "v", "w", "x", "y", "z">>
  IN  IF \E k \in 1..26 : upper[k] = char
        THEN lower[CHOOSE k \in 1..26 : upper[k] = char]
        ELSE char

\* x in lower case with '_' for each '-', space, '.', '/' and '+'.
C27_Sanitized(x) ==
  [i \in 1..Len(x) |->
     IF x[i] \in {"-", " ", ".", "/", "+"} THEN "_" ELSE C27_LowerOf(x[i])]

C26_GlobalPhase(p) == ctls[p] # <<>> /\ ctls[p][1].sent = <<"stats">>

NameAlphabet == {"-", " ", ".", "/", "+", "_", "Q", "q", "7", "$"}

\* Characters in a name.
MaxNameLen == 2

\* Every name of up to MaxNameLen characters of the alphabet.
ShortNames == UNION {[1..n -> NameAlphabet] : n \in 0..MaxNameLen}

\* Names of TestSanitizeMetricName and TestEdgeCases.
NameExamples ==
  { <<"q", "u", "e", "r", "y", ".", "t", "o", "t", "a", "l">>,
    <<"Z", "o", "n", "e", ".", "S", "t", "a", "t", "u", "s", "-", "T", "y", "p", "e",
      "+", "V", "a", "l", "u", "e", "/", "C", "o", "u", "n", "t">>,
    <<"z", "o", "n", "e", " ", "c", "o", "u", "n", "t", " ", "t", "o", "t", "a", "l">>,
    <<"a", "$", "b", "%", "c">>,
    <<"a", "l", "r", "e", "a", "d", "y", "_", "v", "a", "l", "i", "d">> }

SanitizeInputs == ShortNames \cup NameExamples \cup ItemNames

\* No call yet: calls counts them, out is what the last returned, prev what
\* the one before returned.
NotSanitized == [calls |-> 0, out |-> <<>>, prev |-> <<>>]

InitSanitize ==
  /\ DebugMode = FALSE
  /\ c = AllEnabled
  /\ InitRegistries
  /\ InitGoroutines
  /\ utilArg \in SanitizeInputs
  /\ utilRet = NotSanitized

\* got := SanitizeMetricName(tt.input)
SanitizeCall ==
  /\ utilRet.calls = 0
  /\ utilRet' = [calls |-> 1, out |-> SanitizeMetricName(utilArg), prev |-> <<>>]
  /\ UNCHANGED <<regVars, getVars, DebugMode, c, utilArg, mu, ch, ph, phret, pass,
                 ctls, calls, result, streamLeft, pc>>

\* SanitizeMetricName(got): the function applied to its own result
SanitizeAgainCall ==
  /\ utilRet.calls = 1
  /\ utilRet' = [calls |-> 2, out |-> SanitizeMetricName(utilRet.out), prev |-> utilRet.out]
  /\ UNCHANGED <<regVars, getVars, DebugMode, c, utilArg, mu, ch, ph, phret, pass,
                 ctls, calls, result, streamLeft, pc>>

NextSanitize == SanitizeCall \/ SanitizeAgainCall

SpecSanitize == InitSanitize /\ [][NextSanitize]_vars

\* C27: SanitizeMetricName returns its input in lower case with every '-',
\* space, '.', '/' and '+' replaced by '_' and every other character as it
\* is; the output has the length of the input, and the empty input gives the
\* empty output.
C27_SanitizeByCharacter ==
  utilRet.calls = 1 =>
    /\ utilRet.out = C27_Sanitized(utilArg)
    /\ Len(utilRet.out) = Len(utilArg)
    /\ utilArg = <<>> => utilRet.out = <<>>

\* "Zone.Status-Type+Value/Count" has become zone_status_type_value_count.
C27_Witness ==
  /\ utilRet.calls = 1
  /\ Len(utilArg) = 28
  /\ utilRet.out =
       <<"z", "o", "n", "e", "_", "s", "t", "a", "t", "u", "s", "_", "t", "y", "p", "e",
         "_", "v", "a", "l", "u", "e", "_", "c", "o", "u", "n", "t">>

\* C28: SanitizeMetricName is idempotent: applied to its own result it
\* returns that result.
C28_SanitizeIdempotent ==
  utilRet.calls = 2 => utilRet.out = utilRet.prev

\* The function has been applied twice to a name its first application
\* changed.
C28_Witness ==
  /\ utilRet.calls = 2
  /\ utilArg = <<"Q", "+">>
  /\ utilRet.prev = <<"q", "_">>
  /\ utilRet.out = <<"q", "_">>

(***************************************************************************)
(* The receive loops: the positional index and the end of the loop         *)
(***************************************************************************)

\* C29: in the zone-status phase the positional index is 0 right after every
\* DATA record whose non-empty zone differs from the current zone, is one
\* more after each EXTRA record received once a zone is current, and is
\* changed by nothing else (so it counts the EXTRA records received since the
\* zone context began, and is 0 while there is none); a DATA record itself
\* never gives an observation.
C29_PositionalIndex ==
  /\ [](\A p \in Procs :
          (pc[p] = "zs_recv" /\ ph[p].currentZone = <<>>) => ph[p].responseIndex = 0)
  /\ [][\A p \in Procs : \A r \in StatusRecords :
          (pc[p] = "zs_recv" /\ ZsRecv(p, r)) =>
            /\ IF r.dataType = "DATA" /\ r.data.Zone # <<>>
                    /\ r.data.Zone # ph[p].currentZone
                 THEN /\ ph'[p].responseIndex = 0
                      /\ ph'[p].currentZone = r.data.Zone
               ELSE IF r.dataType = "EXTRA" /\ ph[p].currentZone # <<>>
                 THEN /\ ph'[p].responseIndex = ph[p].responseIndex + 1
                      /\ ph'[p].currentZone = ph[p].currentZone
               ELSE /\ ph'[p].responseIndex = ph[p].responseIndex
                    /\ ph'[p].currentZone = ph[p].currentZone
            /\ r.dataType = "DATA" => ch'[p] = ch[p]]_vars

\* A second zone has begun after two EXTRA records of the first, and one
\* EXTRA record of the second has been received.
C29_Witness ==
  \E p \in Procs :
    /\ pc[p] = "zs_recv"
    /\ ph[p].currentZone = ZoneOrg
    /\ ph[p].responseIndex = 1
    /\ ph[p].count = 5
    /\ calls[p].Receive = 5

\* C30: in every phase the first BLOCK or END record ends the phase with no
\* error, so that the phase makes no further receive call and emits no
\* further observation; a record of any other kind never ends the phase.
C30_TerminatorEndsPhase ==
  [][\A p \in Procs :
       /\ \A t \in {"BLOCK", "END"} :
            RecvStep(p, [dataType |-> t, data |-> EmptyData, err |-> <<>>]) =>
              /\ pc'[p] = "c_after"
              /\ ph'[p].err = <<>>
              /\ ch'[p] = ch[p]
       /\ \A r \in PassRecordsFor(p) :
            RecvStep(p, r) =>
              /\ r.dataType \in {"DATA", "EXTRA"}
              /\ pc'[p] # "c_after"
              /\ pc'[p] \in {"gs_recv", "zs_recv", "zst_recv", "zt_recv", "get_rlock"}
       /\ pc[p] = "c_after" =>
            /\ calls'[p].Receive <= calls[p].Receive
            /\ ch'[p] = ch[p]]_vars

\* The zone-timers phase is back without an error after two receives: the
\* SOA record of a zone, which gave its observations, and a terminator.
C30_Witness ==
  \E p \in Procs :
    /\ pc[p] = "c_after"
    /\ pass[p].stage = 4
    /\ ph[p].err = <<>>
    /\ calls[p].Receive = 2
    /\ Len(ch[p]) >= 7
    /\ ch[p][Len(ch[p])].desc = zoneExpirationDesc[2]

(***************************************************************************)
(* Zone status: the timer values that give no observation, and the ones    *)
(* that give 0                                                             *)
(***************************************************************************)

\* p has handled an EXTRA record at index 7 or 9 of a zone, with the
\* zone-status flag on.
C31_TimerHandled(p) ==
  C6_Handled(p) /\ ph[p].responseIndex \in {7, 9} /\ c.collectZoneStatus

\* v decodes: it starts with a state word or is a duration of the grammar.
C31_Decodes(v) == C22_StateWord(v) \/ C22_Duration(v)

\* C31: in the zone-status phase a timer value that is "not scheduled", "-",
\* the empty string, or a string that does not decode, produces no
\* observation at index 7 or 9; an observation with value 0 is emitted there
\* only when the value starts with pending, running or frozen, or is a
\* duration of the grammar whose groups sum to 0.
C31_NoZeroForAbsentTimer ==
  \A p \in Procs :
    C31_TimerHandled(p) =>
      /\ (ph[p].data.Data \in {NotScheduled, Dash, Empty} \/ ~C31_Decodes(ph[p].data.Data))
           => Produced(p) = <<>>
      /\ \A i \in 1..Len(Produced(p)) :
           Produced(p)[i].value = Float(0) =>
             \/ C22_StateWord(ph[p].data.Data)
             \/ C22_Duration(ph[p].data.Data) /\ C20_Seconds(ph[p].data.Data) = 0

(***************************************************************************)
(* The phases emit record by record                                        *)
(***************************************************************************)

\* The observations the last received record of p gives, p being at the head
\* of its loop: none before the first record.
C32_Due(p) ==
  IF ph[p].dataType \notin {"DATA", "EXTRA"} THEN <<>>
  ELSE LET data == ph[p].data
       IN  CASE pc[p] = "gs_recv" ->
                  IF data.Item # <<>> /\ data.Data # <<>> /\ IsNumber(data.Data)
                    THEN PairOf(globalStatsDescriptors[data.Item],
                                ParseFloat(data.Data).val, <<data.Section, data.ID>>)
                    ELSE <<>>
             [] pc[p] = "zs_recv" ->
                  IF ph[p].dataType = "EXTRA" /\ ph[p].currentZone # <<>>
                    THEN C6_Serial(p) \o C6_Timer(p, 7, zoneStatusRefreshDesc)
                           \o C6_Timer(p, 9, zoneStatusExpirationDesc)
                    ELSE <<>>
             [] pc[p] = "zst_recv" ->
                  IF /\ data.Zone # <<>> /\ data.Item # <<>> /\ data.Data # <<>>
                     /\ IsNumber(data.Data)
                    THEN PairOf(zoneStatsDescriptors[data.Item],
                                ParseFloat(data.Data).val,
                                <<data.Zone, data.Section, data.ID>>)
                    ELSE <<>>
             [] pc[p] = "zt_recv" ->
                  IF /\ ph[p].dataType = "DATA" /\ data.Zone # <<>>
                     /\ C9_SoaShape(Fields(data.Data))
                    THEN PairOf(zoneRefreshDesc, IntegerOf(Fields(data.Data)[4]), <<data.Zone>>)
                         \o PairOf(zoneRetryDesc, IntegerOf(Fields(data.Data)[5]), <<data.Zone>>)
                         \o PairOf(zoneExpirationDesc, IntegerOf(Fields(data.Data)[6]),
                                   <<data.Zone>>)
                    ELSE <<>>
             [] OTHER -> <<>>

\* C32: within a phase the observations are emitted in the order in which
\* their records were received, and every observation of a record is emitted
\* before the next receive call.  No step of a phase takes back or moves what
\* the channel has taken: it only adds at the end; and at every receive call
\* the channel holds, after what it held at the receive before, exactly the
\* observations of the record received then.
C32_RecordByRecord ==
  [][\A p \in Procs :
       /\ IsPrefix(ch[p], ch'[p])
       /\ calls'[p].Receive = calls[p].Receive + 1 =>
            /\ Produced(p) = C32_Due(p)
            /\ ph'[p].err = <<>> /\ pc'[p] # "unwind" /\ pc'[p] # "returned"
                 => ph'[p].mark = Len(ch[p])]_vars

\* Two records of the global statistics, the first without an id and the
\* second with one, have given their pairs in that order, and a third
\* receive has followed, for a record that gives nothing.
C32_Witness ==
  \E p \in Procs :
    /\ pc[p] = "gs_recv"
    /\ calls[p].Receive = 3
    /\ Len(ch[p]) = 4
    /\ ch[p][1].labelValues[2] = <<>>
    /\ ch[p][3].labelValues[2] = <<"u", "d", "p">>
    /\ ph[p].mark = 4

(***************************************************************************)
(* Collect: the sessions of a pass                                         *)
(***************************************************************************)

\* The control objects of p whose session is open.
C33_Open(p) == {i \in 1..Len(ctls[p]) : ctls[p][i].connected}

\* C33: at every point of a Collect pass at most one transport session is
\* open; when the pass returns (its deferred calls have run) every control
\* object it allocated is closed: no session open, the handle gone; and the
\* handle of an object is closed and freed once however often Close was
\* called on it, the explicit call followed by the deferred one included.
C33_SessionsClosed ==
  \A p \in Procs :
    /\ Cardinality(C33_Open(p)) <= 1
    /\ \A i \in 1..Len(ctls[p]) :
         /\ ctls[p][i].freed <= 1
         /\ ctls[p][i].closed >= 1 => ctls[p][i].freed = 1 /\ ~ctls[p][i].ctl
         /\ ctls[p][i].connected => ctls[p][i].ctl /\ ctls[p][i].closed = 0
    /\ pc[p] = "c_unlock" =>
         \A i \in 1..Len(ctls[p]) :
           ~ctls[p][i].connected /\ ~ctls[p][i].ctl /\ ctls[p][i].freed = 1

\* A pass has returned early, its third connect having failed: the first two
\* objects were closed twice, explicitly and by the deferred call, the third
\* once, by the deferred call alone, and each handle was freed once.
C33_Witness ==
  \E p \in Procs :
    /\ pc[p] = "c_unlock"
    /\ Len(ctls[p]) = 3
    /\ ctls[p][1].closed = 2 /\ ctls[p][1].freed = 1
    /\ ctls[p][2].closed = 2 /\ ctls[p][2].freed = 1
    /\ ctls[p][3].closed = 1 /\ ctls[p][3].freed = 1
    /\ ctls[p][3].sent = <<>>

(***************************************************************************)
(* SpecFair: the passes of Spec under the scheduling the runtime gives.    *)
(* The goroutine that holds c.mu takes its next step whenever it can take  *)
(* one: every transport call returns, the channel takes every metric, and  *)
(* a stream ends after the records it holds.  A goroutine waiting in       *)
(* c.mu.Lock() gets the mutex if the mutex is free again and again:        *)
(* sync.Mutex hands it to a waiter that has waited too long.  The callers  *)
(* are free to call Collect or not.  The collector has its four phases on, *)
(* so that every phase and both registries take part.                      *)
(***************************************************************************)

InitFair ==
  /\ DebugMode = FALSE
  /\ c = [AllEnabled EXCEPT !.collectMemInfo = FALSE]
  /\ InitRegistries
  /\ InitGoroutines
  /\ InitUtils

\* A step of the pass that holds the collection mutex.
HolderStep == \E p \in Procs : mu = p /\ Collect(p)

Fair == WF_vars(HolderStep) /\ \A p \in Procs : SF_vars(CollectLock(p))

SpecFair == InitFair /\ [][Next]_vars /\ Fair

\* C34: every started Collect pass terminates and releases the collection
\* mutex, and every pass waiting on the mutex runs: whatever a goroutine has
\* started, it is again and again outside Collect with the mutex not in its
\* hands, so it neither waits in c.mu.Lock() for ever nor stays for ever
\* inside a pass, at a registry lock or anywhere else.
C34_PassesTerminate ==
  \A p \in Procs : []<>(pc[p] = "idle" /\ mu # p)

\* A pass has run (the registry holds the pair it built), another pass holds
\* the mutex now, and a further call waits in c.mu.Lock().
C34_Witness ==
  \E p, q \in Procs :
    /\ p # q
    /\ mu = q /\ pc[q] = "c_new" /\ pass[q].stage = 1
    /\ PassItem \in DOMAIN globalStatsDescriptors
    /\ pc[p] = "c_lock"

(***************************************************************************)
(* The observations of one run: same descriptor, same label values         *)
(***************************************************************************)

\* C35: within one Collect pass no two observations carry the same
\* descriptor and the same label values, whatever the stream of records,
\* one that repeats a zone or an (item, section, id) triple included.
C35_NoDuplicateObservation ==
  \A p \in Procs :
    \A i, j \in 1..Len(ch[p]) :
      (i < j /\ ch[p][i].desc = ch[p][j].desc) =>
        ch[p][i].labelValues # ch[p][j].labelValues

(***************************************************************************)
(* The registries: one name for one raw statistic name                     *)
(***************************************************************************)

\* C36: within one registry two different raw statistic names never have the
\* same metric name: the map from the cached raw name to the name of its pair
\* is injective.
C36_NamesInjective ==
  \A a, b \in DOMAIN globalStatsDescriptors \cup DOMAIN zoneStatsDescriptors :
    a # b =>
      /\ {a, b} \subseteq DOMAIN globalStatsDescriptors =>
           globalStatsDescriptors[a][1].fqName # globalStatsDescriptors[b][1].fqName
      /\ {a, b} \subseteq DOMAIN zoneStatsDescriptors =>
           zoneStatsDescriptors[a][1].fqName # zoneStatsDescriptors[b][1].fqName

(***************************************************************************)
(* The characters of a synthesized name                                    *)
(***************************************************************************)

\* The characters a metric name may be made of.
C37_NameChars ==
  {"a", "b", "c", "d", "e", "f", "g", "h", "i", "j", "k", "l", "m",
   "n", "o", "p", "q", "r", "s", "t", "u", "v", "w", "x", "y", "z",
   "A", "B", "C", "D", "E", "F", "G", "H", "I", "J", "K", "L", "M",
   "N", "O", "P", "Q", "R", "S", "T", "U", "V", "W", "X", "Y", "Z",
   "0", "1", "2", "3", "4", "5", "6", "7", "8", "9", "_", ":"}

\* C37: for every raw statistic name the synthesized metric name, in either
\* registry, is made of letters, digits, '_' and ':' only.
C37_ValidMetricName ==
  utilRet.calls = 1 =>
    /\ \A i \in 1..Len(GlobalStatsPrefix \o utilRet.out) :
         (GlobalStatsPrefix \o utilRet.out)[i] \in C37_NameChars
    /\ \A i \in 1..Len(ZoneStatsPrefix \o utilRet.out) :
         (ZoneStatsPrefix \o utilRet.out)[i] \in C37_NameChars

(***************************************************************************)
(* Label values and labels                                                 *)
(***************************************************************************)

\* The descriptors of the package-level pairs with one label.
C38_OneLabelDescs ==
  {pair[k] : pair \in {memoryUsageDesc, zoneSerialDesc, zoneRefreshDesc, zoneRetryDesc,
                       zoneExpirationDesc, zoneStatusRefreshDesc,
                       zoneStatusExpirationDesc}, k \in 1..2}

\* The descriptors cached in a registry.
C38_Cached(descriptors) == {descriptors[item][k] : item \in DOMAIN descriptors, k \in 1..2}

\* C38: every metric sendMetrics has built carries as many label values as
\* its descriptor has labels: 1 for the memory, zone-serial and zone-timer
\* pairs, 2 for the pairs of the global registry, 3 for those of the per-zone
\* registry; and a cached pair has the labels of its registry for as long as
\* it is cached.
C38_LabelCounts ==
  /\ \A p \in Procs : \A i \in 1..Len(ch[p]) :
       ch[p][i] # BuildInfoMetric =>
         /\ Len(ch[p][i].labelValues) = Len(ch[p][i].desc.variableLabels)
         /\ ch[p][i].desc \in C38_OneLabelDescs => Len(ch[p][i].labelValues) = 1
         /\ ch[p][i].desc \in C38_Cached(globalStatsDescriptors)
              => Len(ch[p][i].labelValues) = 2
         /\ ch[p][i].desc \in C38_Cached(zoneStatsDescriptors)
              => Len(ch[p][i].labelValues) = 3
         /\ ch[p][i].desc \in C38_OneLabelDescs \cup C38_Cached(globalStatsDescriptors)
                                \cup C38_Cached(zoneStatsDescriptors)
  /\ \A d \in C38_Cached(globalStatsDescriptors) : d.variableLabels = <<"module", "type">>
  /\ \A d \in C38_Cached(zoneStatsDescriptors) :
       d.variableLabels = <<"zone", "module", "type">>

\* One pass has sent metrics with one, two and three label values: memory
\* usage, a global statistic from a cached pair, a zone statistic.
C38_Witness ==
  \E p \in Procs : \E i, j, k \in 1..Len(ch[p]) :
    /\ ch[p][i].desc = memoryUsageDesc[1]
    /\ ch[p][j].desc \in C38_Cached(globalStatsDescriptors)
    /\ descAllocs["global"][PassItem] = 1
    /\ ch[p][k].desc \in C38_Cached(zoneStatsDescriptors)
    /\ Len(ch[p][k].labelValues) = 3
    /\ pc[p] = "c_unlock"

(***************************************************************************)
(* C39: a terminator without payload                                       *)
(***************************************************************************)

\* mockCtl.On("ReceiveResponse").Return(libknot.CtlTypeBlock, nil, nil)
C39_BareTerminators == {Response(t, NilData) : t \in {"BLOCK", "END"}}

\* C39: a phase handles a terminating BLOCK or END record without reading its
\* payload: when receive delivers a terminator with no payload, the phase
\* returns to its caller with no error and emits nothing for that record,
\* whether debug logging is off or on.
C39_TerminatorWithoutPayload ==
  [][\A p \in Procs : \A r \in C39_BareTerminators :
       RecvStep(p, r) =>
         /\ pc'[p] = phret[p]
         /\ ph'[p].err = NoErr
         /\ ch'[p] = ch[p]]_vars

(***************************************************************************)
(* Describe                                                                *)
(***************************************************************************)

\* sendDesc := func(desc [2]*prometheus.Desc) { ch <- desc[0]; ch <- desc[1] }
sendDesc(desc) == <<desc[1], desc[2]>>

\* KnotCollector.Describe: the descriptors it sends, in order.
Describe(cfg) ==
  <<buildInfoDesc>>
    \o (IF cfg.collectMemInfo THEN sendDesc(memoryUsageDesc) ELSE <<>>)
    \o (IF cfg.collectZoneSerial THEN sendDesc(zoneSerialDesc) ELSE <<>>)
    \o (IF cfg.collectZoneTimers
          THEN sendDesc(zoneRefreshDesc) \o sendDesc(zoneRetryDesc)
                 \o sendDesc(zoneExpirationDesc) \o sendDesc(zoneStatusExpirationDesc)
                 \o sendDesc(zoneStatusRefreshDesc)
          ELSE <<>>)

\* The statically defined descriptors: the package-level variables.
C40_StaticDescs == {buildInfoDesc} \cup C38_OneLabelDescs

\* C40: for every flag combination, every statically defined descriptor on
\* which the collector has emitted an observation is among the descriptors
\* that Describe sends for the same flags.
C40_EmittedAreDescribed ==
  \A p \in Procs : \A i \in DOMAIN ch[p] :
    ch[p][i].desc \in C40_StaticDescs =>
      \E k \in DOMAIN Describe(c) : Describe(c)[k] = ch[p][i].desc

====
